---- MODULE Spec2Model ----
(***************************************************************************)
(* Model of the dependency-analysis core of the node-dependency-           *)
(* troubleshooter scripts: version constraints (engine-strict-validator),  *)
(* lockfile parsing and duplicate detection (analyze_package_lock,         *)
(* dependency-tree-visualizer) and workspace cycle detection               *)
(* (monorepo-checker).                                                     *)
(*                                                                         *)
(* Python strings are sequences of one-character strings, so that strip,   *)
(* startswith, split and the regular expression of parse_semver are        *)
(* computed character by character.  Python's None is NoneVal.             *)
(***************************************************************************)
EXTENDS Integers, Sequences, FiniteSets, TLC

VARIABLES
    \* engine-strict-validator.py: one call of check_version_constraint
    version, constraint, parsed_version, result, vpc,
    \* analyze_package_lock.py / dependency-tree-visualizer.py: one run
    lock_data, content, lpc, idx, current_package, current_version,
    script, packages, duplicates, dup_count,
    \* monorepo-checker.py: one call of find_circular_dependencies
    packages_info, wpc, pkg_i, dep_i, stack, ret, circular,
    \* monorepo-checker.py: check_workspace_references, check_version_mismatches
    issues, dependency_versions, mismatches,
    \* dependency-tree-visualizer.py: the options and the rendering of main
    focus_package, duplicates_only, max_depth, tree, depth_stats, output,
    \* check_node_version.py: the check of the node requirement in main
    current_node, node_requirement, parsed, compatible, npc

verVars  == <<version, constraint, parsed_version, result, vpc>>
lockVars == <<lock_data, content, lpc, idx, current_package, current_version,
              script, packages, duplicates, dup_count>>
wsVars   == <<packages_info, wpc, pkg_i, dep_i, stack, ret, circular>>
chkVars  == <<issues, dependency_versions, mismatches>>
treeVars == <<focus_package, duplicates_only, max_depth, tree, depth_stats, output>>
nodeVars == <<current_node, node_requirement, parsed, compatible, npc>>
vars     == <<verVars, lockVars, wsVars, chkVars, treeVars, nodeVars>>

(***************************************************************************)
(* Bounds of the model.                                                    *)
(***************************************************************************)
MaxComp    == 2   \* version components range over 0..MaxComp and 10
MaxKeys    == 2   \* entries of the `packages` mapping of a lockfile
MaxLines   == 4   \* lines of a yarn.lock document
MaxMembers == 3   \* workspace members
MaxEdges   == 3   \* declared dependencies over all workspace members

(***************************************************************************)
(* Python values and string methods.                                       *)
(***************************************************************************)
NoneVal == <<"<None>">>

Digits == {"0", "1", "2", "3", "4", "5", "6", "7", "8", "9"}

DigitVal(c) ==
    CASE c = "0" -> 0 [] c = "1" -> 1 [] c = "2" -> 2 [] c = "3" -> 3
      [] c = "4" -> 4 [] c = "5" -> 5 [] c = "6" -> 6 [] c = "7" -> 7
      [] c = "8" -> 8 [] c = "9" -> 9

DigitChar(n) ==
    CASE n = 0 -> "0" [] n = 1 -> "1" [] n = 2 -> "2" [] n = 3 -> "3"
      [] n = 4 -> "4" [] n = 5 -> "5" [] n = 6 -> "6" [] n = 7 -> "7"
      [] n = 8 -> "8" [] n = 9 -> "9"

\* max(S)
SetMax(S) == CHOOSE x \in S : \A y \in S : y <= x

\* str.startswith(prefix)
StartsWith(s, p) == Len(s) >= Len(p) /\ SubSeq(s, 1, Len(p)) = p

\* s[n:]
From(s, n) == SubSeq(s, n + 1, Len(s))

RECURSIVE LStrip(_, _)
LStrip(s, chars) ==
    IF s # <<>> /\ Head(s) \in chars THEN LStrip(Tail(s), chars) ELSE s

RECURSIVE RStrip(_, _)
RStrip(s, chars) ==
    IF s # <<>> /\ s[Len(s)] \in chars
    THEN RStrip(SubSeq(s, 1, Len(s) - 1), chars) ELSE s

\* str.strip(chars)
StripChars(s, chars) == RStrip(LStrip(s, chars), chars)

\* str.strip()
Strip(s) == StripChars(s, {" ", "\t"})

\* str.find(sep) from position i (1-based); 0 when sep does not occur
RECURSIVE FindFrom(_, _, _)
FindFrom(s, sep, i) ==
    IF i + Len(sep) - 1 > Len(s) THEN 0
    ELSE IF SubSeq(s, i, i + Len(sep) - 1) = sep THEN i
    ELSE FindFrom(s, sep, i + 1)

\* `sep in s`
Contains(s, sep) == FindFrom(s, sep, 1) # 0

\* str.split(sep): the pieces between the non-overlapping occurrences of sep
RECURSIVE Split(_, _)
Split(s, sep) ==
    LET k == FindFrom(s, sep, 1)
    IN  IF k = 0 THEN <<s>>
        ELSE <<SubSeq(s, 1, k - 1)>> \o Split(From(s, k + Len(sep) - 1), sep)

\* the length of the run of digits at the start of s (\d+ is greedy)
RECURSIVE DigitRun(_)
DigitRun(s) ==
    IF s # <<>> /\ Head(s) \in Digits THEN 1 + DigitRun(Tail(s)) ELSE 0

\* int(digits)
RECURSIVE ParseInt(_)
ParseInt(s) ==
    IF s = <<>> THEN 0
    ELSE 10 * ParseInt(SubSeq(s, 1, Len(s) - 1)) + DigitVal(s[Len(s)])

\* str(n) for n >= 0: how the inputs of the model are written down
RECURSIVE FormatInt(_)
FormatInt(n) ==
    IF n < 10 THEN <<DigitChar(n)>>
    ELSE FormatInt(n \div 10) \o <<DigitChar(n % 10)>>

FormatVersion(v) ==
    FormatInt(v[1]) \o <<".">> \o FormatInt(v[2]) \o <<".">> \o FormatInt(v[3])

(***************************************************************************)
(* engine-strict-validator.py: parse_semver and check_version_constraint.  *)
(***************************************************************************)
\* parse_semver's `return None`
NoMatch == [none |-> TRUE]

\* A lenient parser: a text that does not match counts as 0.0.0.
parse_semver_lenient(version_str) ==
    LET n1 == DigitRun(version_str)
        r1 == From(version_str, n1)
        r2 == From(r1, 1)
        n2 == DigitRun(r2)
        r3 == From(r2, n2)
        r4 == From(r3, 1)
        n3 == DigitRun(r4)
    IN  IF /\ n1 > 0 /\ StartsWith(r1, <<".">>)
           /\ n2 > 0 /\ StartsWith(r3, <<".">>)
           /\ n3 > 0
        THEN [major |-> ParseInt(SubSeq(version_str, 1, n1)),
              minor |-> ParseInt(SubSeq(r2, 1, n2)),
              patch |-> ParseInt(SubSeq(r4, 1, n3))]
        ELSE [major |-> 0, minor |-> 0, patch |-> 0]

\* A parser that matches the whole text (re.fullmatch): nothing may follow the
\* third run of digits.
parse_semver_fullmatch(version_str) ==
    LET n1 == DigitRun(version_str)
        r1 == From(version_str, n1)
        r2 == From(r1, 1)
        n2 == DigitRun(r2)
        r3 == From(r2, n2)
        r4 == From(r3, 1)
        n3 == DigitRun(r4)
    IN  IF /\ n1 > 0 /\ StartsWith(r1, <<".">>)
           /\ n2 > 0 /\ StartsWith(r3, <<".">>)
           /\ n3 > 0 /\ n3 = Len(r4)
        THEN [major |-> ParseInt(SubSeq(version_str, 1, n1)),
              minor |-> ParseInt(SubSeq(r2, 1, n2)),
              patch |-> ParseInt(SubSeq(r4, 1, n3))]
        ELSE NoMatch

\* re.match(r'(\d+)\.(\d+)\.(\d+)', version_str): anchored at the start of the
\* text, each \d+ greedy; the three groups converted by int().
parse_semver(version_str) ==
    LET n1 == DigitRun(version_str)
        r1 == From(version_str, n1)
        r2 == From(r1, 1)
        n2 == DigitRun(r2)
        r3 == From(r2, n2)
        r4 == From(r3, 1)
        n3 == DigitRun(r4)
    IN  IF /\ n1 > 0 /\ StartsWith(r1, <<".">>)
           /\ n2 > 0 /\ StartsWith(r3, <<".">>)
           /\ n3 > 0
        THEN [major |-> ParseInt(SubSeq(version_str, 1, n1)),
              minor |-> ParseInt(SubSeq(r2, 1, n2)),
              patch |-> ParseInt(SubSeq(r4, 1, n3))]
        ELSE NoMatch

\* The '>' branch tried before the '>=' branch, and '<' before '<='.
ConstraintPrefix_ShortFirst(c) ==
    IF StartsWith(c, <<">">>) THEN <<">">>
    ELSE IF StartsWith(c, <<">", "=">>) THEN <<">", "=">>
    ELSE IF StartsWith(c, <<"<">>) THEN <<"<">>
    ELSE IF StartsWith(c, <<"<", "=">>) THEN <<"<", "=">>
    ELSE IF StartsWith(c, <<"^">>) THEN <<"^">>
    ELSE IF StartsWith(c, <<"~">>) THEN <<"~">>
    ELSE <<>>

\* The if/elif chain of startswith tests, in the order of the code: the
\* operator prefix of the branch that is taken (<<>> for the last two).
ConstraintPrefix(c) ==
    IF StartsWith(c, <<">", "=">>) THEN <<">", "=">>
    ELSE IF StartsWith(c, <<">">>) THEN <<">">>
    ELSE IF StartsWith(c, <<"<", "=">>) THEN <<"<", "=">>
    ELSE IF StartsWith(c, <<"<">>) THEN <<"<">>
    ELSE IF StartsWith(c, <<"^">>) THEN <<"^">>
    ELSE IF StartsWith(c, <<"~">>) THEN <<"~">>
    ELSE <<>>

GreaterEqual(version_parts, required) ==
    IF version_parts.major > required.major THEN TRUE
    ELSE IF version_parts.major = required.major
         THEN IF version_parts.minor > required.minor THEN TRUE
              ELSE IF version_parts.minor = required.minor
                   THEN version_parts.patch >= required.patch
                   ELSE FALSE
         ELSE FALSE

\* A '>' that is inclusive: an equal version satisfies it.
GreaterThan_Inclusive(version_parts, required) ==
    GreaterEqual(version_parts, required)

GreaterThan(version_parts, required) ==
    IF version_parts.major > required.major THEN TRUE
    ELSE IF version_parts.major = required.major
         THEN IF version_parts.minor > required.minor THEN TRUE
              ELSE IF version_parts.minor = required.minor
                   THEN version_parts.patch > required.patch
                   ELSE FALSE
         ELSE FALSE

LessEqual(version_parts, required) ==
    IF version_parts.major < required.major THEN TRUE
    ELSE IF version_parts.major = required.major
         THEN IF version_parts.minor < required.minor THEN TRUE
              ELSE IF version_parts.minor = required.minor
                   THEN version_parts.patch <= required.patch
                   ELSE FALSE
         ELSE FALSE

LessThan(version_parts, required) ==
    IF version_parts.major < required.major THEN TRUE
    ELSE IF version_parts.major = required.major
         THEN IF version_parts.minor < required.minor THEN TRUE
              ELSE IF version_parts.minor = required.minor
                   THEN version_parts.patch < required.patch
                   ELSE FALSE
         ELSE FALSE

\* A caret range that is a plain '>=': the test of the major is missing.
Caret_NoMajorTest(version_parts, required) ==
    GreaterEqual(version_parts, required)

Caret(version_parts, required) ==
    IF version_parts.major # required.major THEN FALSE
    ELSE IF version_parts.minor > required.minor THEN TRUE
    ELSE IF version_parts.minor = required.minor
         THEN version_parts.patch >= required.patch
         ELSE FALSE

\* A tilde range that accepts a newer minor, as a caret range does.
Tilde_AsCaret(version_parts, required) ==
    Caret(version_parts, required)

Tilde(version_parts, required) ==
    IF version_parts.major # required.major THEN FALSE
    ELSE IF version_parts.minor # required.minor THEN FALSE
    ELSE version_parts.patch >= required.patch

Exact(version_parts, required) ==
    /\ version_parts.major = required.major
    /\ version_parts.minor = required.minor
    /\ version_parts.patch = required.patch

\* `not x` for x a string or None
Falsy(x) == x = NoneVal \/ x = <<>>

check_version_constraint(version_, constraint_) ==
    IF Falsy(version_) \/ Falsy(constraint_) THEN FALSE
    ELSE
    LET c             == Strip(constraint_)
        version_parts == parse_semver(version_)
        op            == ConstraintPrefix(c)
        required      == parse_semver(Strip(From(c, Len(op))))
    IN  IF version_parts = NoMatch THEN FALSE
        ELSE IF op # <<>>
             THEN IF required = NoMatch THEN FALSE
                  ELSE CASE op = <<">", "=">> -> GreaterEqual(version_parts, required)
                         [] op = <<">">>      -> GreaterThan(version_parts, required)
                         [] op = <<"<", "=">> -> LessEqual(version_parts, required)
                         [] op = <<"<">>      -> LessThan(version_parts, required)
                         [] op = <<"^">>      -> Caret(version_parts, required)
                         [] op = <<"~">>      -> Tilde(version_parts, required)
        ELSE IF c = <<"*">> \/ c = <<>> THEN TRUE
        ELSE IF required = NoMatch THEN FALSE
        ELSE Exact(version_parts, required)


(***************************************************************************)
(* Python dicts keep insertion order: a dict is a sequence of <<key,        *)
(* value>> pairs with distinct keys.                                       *)
(***************************************************************************)
DictKeys(d) == [i \in 1 .. Len(d) |-> d[i][1]]

DictHas(d, k) == \E i \in 1 .. Len(d) : d[i][1] = k

DictGet(d, k) == d[CHOOSE i \in 1 .. Len(d) : d[i][1] = k][2]

\* d[k] = v
DictSet(d, k, v) ==
    IF DictHas(d, k)
    THEN [i \in 1 .. Len(d) |-> IF d[i][1] = k THEN <<k, v>> ELSE d[i]]
    ELSE Append(d, <<k, v>>)

\* d[k] = [v]: a new occurrence replaces the ones the name had.
DictAppend_Overwrite(d, k, v) == DictSet(d, k, <<v>>)

\* d[k].append(v) for d a defaultdict(list), or after `if k not in d: d[k] = []`
DictAppend(d, k, v) ==
    IF DictHas(d, k) THEN DictSet(d, k, Append(DictGet(d, k), v))
    ELSE Append(d, <<k, <<v>> >>)

(***************************************************************************)
(* analyze_package_lock.py and dependency-tree-visualizer.py: the parsers  *)
(* of package-lock.json and the duplicate detection.                       *)
(***************************************************************************)
\* 'node_modules/'
NM == <<"n", "o", "d", "e", "_", "m", "o", "d", "u", "l", "e", "s", "/">>

\* 'unknown'
Unknown == <<"u", "n", "k", "n", "o", "w", "n">>

\* info.get('version', 'unknown'); an absent key is NoneVal
GetVersion(info) == IF info.version = NoneVal THEN Unknown ELSE info.version

\* The name taken after the first separator instead of after the last one.
analyze_packages_entry_FirstPart(pkgs, path, pkg_info) ==
    IF path = <<>> THEN pkgs
    ELSE LET parts == Split(path, NM)
         IN  IF Len(parts) > 1
             THEN DictAppend(pkgs, parts[2],
                             [version |-> GetVersion(pkg_info), path |-> path])
             ELSE pkgs

\* analyze_npm_lock: the body of the loop over lock_data['packages']
analyze_packages_entry(pkgs, path, pkg_info) ==
    IF path = <<>> THEN pkgs
    ELSE LET parts == Split(path, NM)
         IN  IF Len(parts) > 1
             THEN DictAppend(pkgs, parts[Len(parts)],
                             [version |-> GetVersion(pkg_info), path |-> path])
             ELSE pkgs

\* load_npm_lock: the body of the loop over data['packages']
load_packages_entry(pkgs, path, pkg_info) ==
    IF path = <<>> THEN pkgs
    ELSE LET parts == Split(path, NM)
         IN  IF Len(parts) > 1
             THEN DictAppend(pkgs, parts[Len(parts)],
                             [version |-> GetVersion(pkg_info), path |-> path,
                              depth |-> Len(parts) - 1])
             ELSE pkgs

\* analyze_npm_lock.walk_deps(deps, prefix): the map after the walk
RECURSIVE analyze_walk_deps(_, _, _)
analyze_walk_deps(pkgs, deps, prefix) ==
    IF deps = <<>> THEN pkgs
    ELSE LET name      == deps[1][1]
             info      == deps[1][2]
             full_path == prefix \o name
             recorded  == DictAppend(pkgs, name,
                              [version |-> GetVersion(info), path |-> full_path])
             nested    == IF info.has_dependencies
                          THEN analyze_walk_deps(recorded, info.dependencies,
                                                 full_path \o <<"/">> \o NM)
                          ELSE recorded
         IN  analyze_walk_deps(nested, Tail(deps), prefix)

\* The siblings are walked before the nested dependencies of an entry.
RECURSIVE load_walk_deps_SiblingsFirst(_, _, _, _)
load_walk_deps_SiblingsFirst(pkgs, deps, prefix, depth) ==
    IF deps = <<>> THEN pkgs
    ELSE LET name      == deps[1][1]
             info      == deps[1][2]
             full_path == prefix \o name
             recorded  == DictAppend(pkgs, name,
                              [version |-> GetVersion(info), path |-> full_path,
                               depth |-> depth])
             siblings  == load_walk_deps_SiblingsFirst(recorded, Tail(deps),
                                                       prefix, depth)
         IN  IF info.has_dependencies
             THEN load_walk_deps_SiblingsFirst(siblings, info.dependencies,
                                               full_path \o <<"/">> \o NM, depth + 1)
             ELSE siblings

\* load_npm_lock.walk_deps(deps, prefix, depth): the map after the walk
RECURSIVE load_walk_deps(_, _, _, _)
load_walk_deps(pkgs, deps, prefix, depth) ==
    IF deps = <<>> THEN pkgs
    ELSE LET name      == deps[1][1]
             info      == deps[1][2]
             full_path == prefix \o name
             recorded  == DictAppend(pkgs, name,
                              [version |-> GetVersion(info), path |-> full_path,
                               depth |-> depth])
             nested    == IF info.has_dependencies
                          THEN load_walk_deps(recorded, info.dependencies,
                                              full_path \o <<"/">> \o NM, depth + 1)
                          ELSE recorded
         IN  load_walk_deps(nested, Tail(deps), prefix, depth)

\* find_duplicates: the grouping of one name's occurrences by version
RECURSIVE GroupByVersion(_, _)
GroupByVersion(unique_versions, versions) ==
    IF versions = <<>> THEN unique_versions
    ELSE GroupByVersion(
             DictAppend(unique_versions, versions[1].version, versions[1].path),
             Tail(versions))

\* A duplicate is a name with more than one occurrence.
RECURSIVE find_duplicates_ByCount(_)
find_duplicates_ByCount(pkgs) ==
    IF pkgs = <<>> THEN <<>>
    ELSE LET unique_versions == GroupByVersion(<<>>, pkgs[1][2])
             rest            == find_duplicates_ByCount(Tail(pkgs))
         IN  IF Len(pkgs[1][2]) > 1
             THEN <<<<pkgs[1][1], unique_versions>>>> \o rest
             ELSE rest

RECURSIVE find_duplicates(_)
find_duplicates(pkgs) ==
    IF pkgs = <<>> THEN <<>>
    ELSE LET unique_versions == GroupByVersion(<<>>, pkgs[1][2])
             rest            == find_duplicates(Tail(pkgs))
         IN  IF Len(unique_versions) > 1
             THEN <<<<pkgs[1][1], unique_versions>>>> \o rest
             ELSE rest

\* set(inst['version'] for inst in instances)
VersionSet(instances) == {instances[i].version : i \in 1 .. Len(instances)}

\* print_tree: is_duplicate, which selects the marker of a package
is_duplicate(instances) == Cardinality(VersionSet(instances)) > 1

\* count_duplicates: (duplicates, total_instances, len(tree_data))
RECURSIVE count_duplicates(_)
count_duplicates(tree_data) ==
    IF tree_data = <<>> THEN <<0, 0, 0>>
    ELSE LET instances == tree_data[1][2]
             rest      == count_duplicates(Tail(tree_data))
         IN  <<rest[1] + (IF Cardinality(VersionSet(instances)) > 1 THEN 1 ELSE 0),
               rest[2] + Len(instances),
               rest[3] + 1>>

(***************************************************************************)
(* dependency-tree-visualizer.py: build_tree_structure, print_tree and     *)
(* analyze_depth.  A printed line is a record of the values its text is    *)
(* formatted from.                                                         *)
(***************************************************************************)
\* The characters of the names and versions, in code point order.
CodePoints ==
    <<"-", ".", "/", "0", "1", "2", "3", "4", "5", "6", "7", "8", "9", "@", "_",
      "a", "b", "c", "d", "e", "f", "g", "h", "i", "j", "k", "l", "m", "n", "o",
      "p", "q", "r", "s", "t", "u", "v", "w", "x", "y", "z">>

ord(c) == CHOOSE i \in 1 .. Len(CodePoints) : CodePoints[i] = c

\* a < b for two str
RECURSIVE StrLT(_, _)
StrLT(a, b) ==
    IF b = <<>> THEN FALSE
    ELSE IF a = <<>> THEN TRUE
    ELSE IF a[1] = b[1] THEN StrLT(Tail(a), Tail(b))
    ELSE ord(a[1]) < ord(b[1])

\* sorted(d.items()) for a dict with str keys
RECURSIVE SortedItems(_)
SortedItems(d) ==
    IF d = <<>> THEN <<>>
    ELSE LET least == CHOOSE i \in 1 .. Len(d) :
                          \A j \in 1 .. Len(d) : j # i => StrLT(d[i][1], d[j][1])
         IN  <<d[least]>>
                 \o SortedItems([j \in 1 .. Len(d) - 1 |->
                                    IF j < least THEN d[j] ELSE d[j + 1]])

\* build_tree_structure(duplicates, focus_package)
build_tree_structure(duplicates_, focus) ==
    IF ~Falsy(focus) /\ DictHas(duplicates_, focus)
    THEN <<<<focus, DictGet(duplicates_, focus)>>>>
    ELSE duplicates_

\* The number of paths that print_tree shows for a version.
DisplayCap == 5

\* print_tree: by_version[inst['version']].append(inst)
RECURSIVE by_version(_, _)
by_version(grouped, instances) ==
    IF instances = <<>> THEN grouped
    ELSE by_version(DictAppend(grouped, instances[1].version, instances[1]),
                    Tail(instances))

\* A ceiling that is exclusive: the locations of depth max_depth are dropped.
RECURSIVE FilterDepth_Exclusive(_, _)
FilterDepth_Exclusive(locs, depth) ==
    IF locs = <<>> THEN <<>>
    ELSE (IF locs[1].depth < depth THEN <<locs[1]>> ELSE <<>>)
             \o FilterDepth_Exclusive(Tail(locs), depth)

\* [loc for loc in locs if loc['depth'] <= max_depth]
RECURSIVE FilterDepth(_, _)
FilterDepth(locs, depth) ==
    IF locs = <<>> THEN <<>>
    ELSE (IF locs[1].depth <= depth THEN <<locs[1]>> ELSE <<>>)
             \o FilterDepth(Tail(locs), depth)

\* print_tree: the line of one location
LocationLine(loc) ==
    [kind  |-> "location",
     path  |-> IF StartsWith(loc.path, NM) THEN From(loc.path, 13) ELSE loc.path,
     depth |-> loc.depth]

\* The instance count is taken after the truncation.
print_version_CountShown(version_, locs, is_last_version) ==
    LET shown == SubSeq(locs, 1, IF Len(locs) < DisplayCap THEN Len(locs)
                                 ELSE DisplayCap)
    IN  <<[kind |-> "version", version |-> version_, instances |-> Len(shown),
           last |-> is_last_version]>>
        \o [j \in 1 .. Len(shown) |-> LocationLine(shown[j])]
        \o (IF Len(locs) > DisplayCap
            THEN <<[kind |-> "more", more |-> Len(locs) - DisplayCap]>>
            ELSE <<>>)

\* print_tree: the lines of one version with its locations locs (not empty)
print_version(version_, locs, is_last_version) ==
    LET shown == SubSeq(locs, 1, IF Len(locs) < DisplayCap THEN Len(locs)
                                 ELSE DisplayCap)
    IN  <<[kind |-> "version", version |-> version_, instances |-> Len(locs),
           last |-> is_last_version]>>
        \o [j \in 1 .. Len(shown) |-> LocationLine(shown[j])]
        \o (IF Len(locs) > DisplayCap
            THEN <<[kind |-> "more", more |-> Len(locs) - DisplayCap]>>
            ELSE <<>>)

\* print_tree: `for i, (version, locs) in enumerate(versions)` from i on;
\* max_depth is <<>> for None and <<n>> for the int n
RECURSIVE print_versions(_, _, _)
print_versions(versions, i, depth) ==
    IF i > Len(versions) THEN <<>>
    ELSE LET locs == IF depth # <<>> THEN FilterDepth(versions[i][2], depth[1])
                     ELSE versions[i][2]
         IN  (IF locs = <<>> THEN <<>>
              ELSE print_version(versions[i][1], locs, i = Len(versions)))
             \o print_versions(versions, i + 1, depth)

\* print_tree: `for pkg_name, instances in packages` over the sorted items
RECURSIVE print_packages(_, _, _)
print_packages(pkgs, show_duplicates_only, depth) ==
    IF pkgs = <<>> THEN <<>>
    ELSE LET pkg_name  == pkgs[1][1]
             instances == pkgs[1][2]
         IN  (IF show_duplicates_only /\ ~is_duplicate(instances) THEN <<>>
              ELSE <<[kind |-> "package", name |-> pkg_name,
                      marker |-> is_duplicate(instances)]>>
                   \o print_versions(SortedItems(by_version(<<>>, instances)),
                                     1, depth)
                   \o <<[kind |-> "blank"]>>)
             \o print_packages(Tail(pkgs), show_duplicates_only, depth)

\* print_tree(tree_data, show_duplicates_only, max_depth): the lines printed
print_tree(tree_data, show_duplicates_only, depth) ==
    print_packages(SortedItems(tree_data), show_duplicates_only, depth)

\* analyze_depth: all_depths
RECURSIVE all_depths(_)
all_depths(tree_data) ==
    IF tree_data = <<>> THEN <<>>
    ELSE [i \in 1 .. Len(tree_data[1][2]) |-> tree_data[1][2][i].depth]
             \o all_depths(Tail(tree_data))

RECURSIVE Sum(_)
Sum(s) == IF s = <<>> THEN 0 ELSE s[1] + Sum(Tail(s))

\* analyze_depth(tree_data): {} or max, avg (sum over len) and total_packages
analyze_depth(tree_data) ==
    LET depths == all_depths(tree_data)
    IN  IF depths = <<>> THEN <<>>
        ELSE <<[max            |-> SetMax({depths[i] : i \in 1 .. Len(depths)}),
                avg            |-> <<Sum(depths), Len(depths)>>,
                total_packages |-> Len(depths)]>>

(***************************************************************************)
(* The values of the variables of a script that is not running.            *)
(***************************************************************************)
VerIdle ==
    /\ version = NoneVal /\ constraint = NoneVal
    /\ parsed_version = NoMatch /\ result = FALSE /\ vpc = "idle"

LockIdle ==
    /\ lock_data = [type |-> "none"] /\ content = <<>>
    /\ lpc = "idle" /\ idx = 0
    /\ current_package = NoneVal /\ current_version = NoneVal
    /\ script = "none"
    /\ packages = <<>> /\ duplicates = <<>> /\ dup_count = <<0, 0, 0>>

WsIdle ==
    /\ packages_info = <<>> /\ wpc = "idle" /\ pkg_i = 0 /\ dep_i = 0
    /\ stack = <<>> /\ ret = FALSE /\ circular = <<>>

ChkIdle ==
    /\ issues = <<>> /\ dependency_versions = <<>> /\ mismatches = <<>>

TreeIdle ==
    /\ focus_package = NoneVal /\ duplicates_only = FALSE /\ max_depth = <<>>
    /\ tree = <<>> /\ depth_stats = <<>> /\ output = <<>>

NodeIdle ==
    /\ current_node = NoneVal /\ node_requirement = NoneVal
    /\ parsed = NoMatch /\ compatible = FALSE /\ npc = "idle"

(***************************************************************************)
(* SpecVersion: one call of check_version_constraint on a version text and *)
(* a constraint text.                                                      *)
(***************************************************************************)
Components == (0 .. MaxComp) \cup {10}

Versions == Components \X Components \X Components

Operators == {<<">", "=">>, <<">">>, <<"<", "=">>, <<"<">>, <<"^">>, <<"~">>, <<>>}

\* Texts that are no three-part version, one with a suffix that is, and 1.2.3.
OddVersionInputs ==
    { NoneVal, <<"1", ".", "2", ".", "3">>, <<>>, <<"x">>, <<"1", ".", "2">>, <<"v", "1", ".", "2", ".", "3">>,
      <<" ", "1", ".", "2", ".", "3">>, <<"1", ".", "2", ".", "x">>,
      <<"1", ".", "2", ".", "3", "-", "b">>,
      <<">", "=", "1", ".", "2", ".", "3">>, <<"=", "1", ".", "2", ".", "3">> }

OddConstraintInputs ==
    { NoneVal, <<>>, <<" ">>, <<"*">>, <<" ", "*", " ">>, <<"*", "1">>,
      <<"n", "o", "t", "-", "a", "-", "v", "e", "r", "s", "i", "o", "n">>,
      <<">", "=", "x">>, <<">">>, <<"<", "=">>, <<"<", "1", ".", "2">>,
      <<"^", "1", ".", "2">>, <<"~">>, <<"~", "x", ".", "1", ".", "1">>,
      <<"=", "1", ".", "2", ".", "3">>, <<"1", ".", "2">>,
      <<">", "=", " ", "1", ".", "2", ".", "1">>, <<" ", "^", "1", ".", "2", ".", "1">> }

VersionInputs == {FormatVersion(v) : v \in Versions} \cup OddVersionInputs

ConstraintInputs ==
    {op \o FormatVersion(t) : op \in Operators, t \in Versions}
        \cup OddConstraintInputs

\* Compound ranges: two clauses separated by one space.
CompoundFirst == {<<1, 1, 1>>, <<10, 0, 2>>}

CompoundSecond == {<<0, 0, 0>>, <<2, 0, 0>>}

CompoundInputs ==
    {op1 \o FormatVersion(a) \o <<" ">> \o op2 \o FormatVersion(b) :
        op1 \in Operators, a \in CompoundFirst,
        op2 \in Operators, b \in CompoundSecond}

InitVersion ==
    /\ version \in VersionInputs
    /\ constraint \in ConstraintInputs \cup CompoundInputs
    /\ parsed_version = NoMatch
    /\ result = FALSE
    /\ vpc = "call"
    /\ LockIdle /\ WsIdle /\ ChkIdle /\ TreeIdle /\ NodeIdle

CheckVersionConstraint ==
    /\ vpc = "call"
    \* version_parts = parse_semver(version), after the test of the arguments
    /\ parsed_version' = IF Falsy(version) \/ Falsy(constraint)
                          THEN parsed_version
                          ELSE parse_semver(version)
    /\ result' = check_version_constraint(version, constraint)
    /\ vpc' = "returned"
    /\ UNCHANGED <<version, constraint, lockVars, wsVars,
                   chkVars, treeVars, nodeVars>>

NextVersion == CheckVersionConstraint

SpecVersion == InitVersion /\ [][NextVersion]_vars

(***************************************************************************)
(* SpecNpm: one run of analyze_package_lock.py (analyze_npm_lock, then     *)
(* find_duplicates) or of dependency-tree-visualizer.py (load_npm_lock,    *)
(* then count_duplicates) on a package-lock.json document.                 *)
(***************************************************************************)
NameA == <<"a">>

NameB == <<"b">>

NameScoped == <<"@", "s", "/", "b">>

V100 == <<"1", ".", "0", ".", "0">>

V200 == <<"2", ".", "0", ".", "0">>

\* Keys of the `packages` mapping: the root, installed packages, a nested
\* and a scoped one, and a workspace folder that is no installation.
PathPool ==
    { <<>>,
      NM \o NameA,
      NM \o NameA \o <<"/">> \o NM \o NameA,
      NM \o NameB \o <<"/">> \o NM \o NameA,
      NM \o NameScoped,
      <<"l", "i", "b", "/", "a">> }

PackageEntries ==
    {<<path, [version |-> v]>> : path \in PathPool, v \in {V100, V200, NoneVal}}

\* The mappings of at most MaxKeys entries (the keys of an object differ).
PackagesMaps ==
    UNION { {ps \in [1 .. n -> PackageEntries] :
                \A i, j \in 1 .. n : i # j => ps[i][1] # ps[j][1]}
            : n \in 0 .. MaxKeys }

Leaf(v) == [version |-> v, has_dependencies |-> FALSE, dependencies |-> <<>>]

Node(v, deps) == [version |-> v, has_dependencies |-> TRUE, dependencies |-> deps]

\* `dependencies` mappings of the lockfileVersion 1 format.
DepsPool ==
    { <<>>,
      <<<<NameA, Leaf(V100)>>>>,
      <<<<NameB, Leaf(NoneVal)>>>>,
      <<<<NameA, Node(V100, <<<<NameA, Leaf(V200)>>>>)>>>>,
      <<<<NameA, Node(V100, <<<<NameA, Leaf(V100)>>>>)>>>>,
      <<<<NameA, Node(V100, <<<<NameB, Leaf(V100)>>>>)>>, <<NameB, Leaf(V200)>>>>,
      <<<<NameA, Node(V100, <<<<NameB, Node(V100, <<<<NameA, Leaf(V200)>>>>)>>>>)>>>> }

NpmDocuments ==
    {[type |-> "npm", has_packages |-> TRUE, packages |-> ps,
      has_dependencies |-> hd, dependencies |-> IF hd THEN ds ELSE <<>>] :
        ps \in PackagesMaps, hd \in BOOLEAN, ds \in DepsPool}
    \cup
    {[type |-> "npm", has_packages |-> FALSE, packages |-> <<>>,
      has_dependencies |-> hd, dependencies |-> IF hd THEN ds ELSE <<>>] :
        hd \in BOOLEAN, ds \in DepsPool}

Scripts == {"analyze_package_lock", "dependency-tree-visualizer"}

InitNpm ==
    /\ script \in Scripts
    /\ lock_data \in NpmDocuments
    /\ content = <<>>
    /\ lpc = "packages" /\ idx = 0
    /\ current_package = NoneVal /\ current_version = NoneVal
    /\ packages = <<>> /\ duplicates = <<>> /\ dup_count = <<0, 0, 0>>
    /\ VerIdle /\ WsIdle /\ ChkIdle /\ TreeIdle /\ NodeIdle

\* One iteration of `for path, pkg_info in lock_data.get('packages', {}).items()`
NpmPackagesEntry ==
    /\ lpc = "packages"
    /\ lock_data.has_packages
    /\ idx < Len(lock_data.packages)
    /\ LET path     == lock_data.packages[idx + 1][1]
           pkg_info == lock_data.packages[idx + 1][2]
       IN  packages' = IF script = "analyze_package_lock"
                       THEN analyze_packages_entry(packages, path, pkg_info)
                       ELSE load_packages_entry(packages, path, pkg_info)
    /\ idx' = idx + 1
    /\ UNCHANGED <<lock_data, content, lpc, current_package, current_version,
                   script, duplicates, dup_count, verVars, wsVars,
                   chkVars, treeVars, nodeVars>>

\* `if 'dependencies' in lock_data:` walk_deps(...), and `return packages`
NpmWalkDeps ==
    /\ lpc = "packages"
    /\ ~lock_data.has_packages \/ idx = Len(lock_data.packages)
    /\ packages' =
           IF ~lock_data.has_dependencies THEN packages
           ELSE IF script = "analyze_package_lock"
                THEN analyze_walk_deps(packages, lock_data.dependencies, NM)
                ELSE load_walk_deps(packages, lock_data.dependencies, <<>>, 0)
    /\ lpc' = "parsed"
    /\ UNCHANGED <<lock_data, content, idx, current_package, current_version,
                   script, duplicates, dup_count, verVars, wsVars,
                   chkVars, treeVars, nodeVars>>

\* analyze_package_lock.py main: duplicates = find_duplicates(packages)
FindDuplicates ==
    /\ lpc = "parsed"
    /\ script = "analyze_package_lock"
    /\ duplicates' = find_duplicates(packages)
    /\ lpc' = "done"
    /\ UNCHANGED <<lock_data, content, idx, current_package, current_version,
                   script, packages, dup_count, verVars, wsVars,
                   chkVars, treeVars, nodeVars>>

\* dependency-tree-visualizer.py main: tree = build_tree_structure(...), and
\* the exit with 'not found' or 'No dependencies found' when it is empty
BuildTree ==
    /\ lpc = "parsed"
    /\ script = "dependency-tree-visualizer"
    /\ tree' = build_tree_structure(packages, focus_package)
    /\ lpc' = IF tree' # <<>> THEN "tree"
              ELSE IF ~Falsy(focus_package) THEN "not_found"
              ELSE "no_dependencies"
    /\ UNCHANGED <<lock_data, content, idx, current_package, current_version,
                   script, packages, duplicates, dup_count,
                   focus_package, duplicates_only, max_depth, depth_stats, output,
                   verVars, wsVars, chkVars, nodeVars>>

\* dependency-tree-visualizer.py main: the statistics, analyze_depth(tree_data)
\* and count_duplicates(tree_data)
CountDuplicates ==
    /\ lpc = "tree"
    /\ depth_stats' = analyze_depth(packages)
    /\ dup_count' = count_duplicates(packages)
    /\ lpc' = "statistics"
    /\ UNCHANGED <<lock_data, content, idx, current_package, current_version,
                   script, packages, duplicates,
                   focus_package, duplicates_only, max_depth, tree, output,
                   verVars, wsVars, chkVars, nodeVars>>

\* dependency-tree-visualizer.py main: print_tree(tree, ...)
PrintTree ==
    /\ lpc = "statistics"
    /\ output' = print_tree(tree, duplicates_only, max_depth)
    /\ lpc' = "done"
    /\ UNCHANGED <<lock_data, content, idx, current_package, current_version,
                   script, packages, duplicates, dup_count,
                   focus_package, duplicates_only, max_depth, tree, depth_stats,
                   verVars, wsVars, chkVars, nodeVars>>

NextNpm ==
    \/ NpmPackagesEntry
    \/ NpmWalkDeps
    \/ FindDuplicates
    \/ BuildTree
    \/ CountDuplicates
    \/ PrintTree

SpecNpm == InitNpm /\ [][NextNpm]_vars

(***************************************************************************)
(* SpecYarn: one run of analyze_package_lock.py on a yarn.lock document:   *)
(* analyze_yarn_lock line by line, then find_duplicates.                   *)
(***************************************************************************)
\* 'version '
VersionKey == <<"v", "e", "r", "s", "i", "o", "n", " ">>

\* The body of the loop of analyze_yarn_lock for one line of the text:
\* the new (current_package, current_version, packages).
yarn_line(cur_package, cur_version, pkgs, raw_line) ==
    LET line == Strip(raw_line)
    IN  IF line # <<>> /\ ~StartsWith(line, <<" ">>) /\ ~StartsWith(line, <<"#">>)
        THEN IF Contains(line, <<"@">>)
             THEN LET parts == Split(line, <<"@">>)
                      name  == IF StartsWith(line, <<"@">>)
                               THEN <<"@">> \o parts[2]
                               ELSE StripChars(StripChars(parts[1], {"\""}), {","})
                  IN  <<name, cur_version, pkgs>>
             ELSE <<cur_package, cur_version, pkgs>>
        ELSE IF StartsWith(line, VersionKey)
        THEN LET ver == StripChars(Split(line, VersionKey)[2], {"\""})
             IN  IF ~Falsy(cur_package) /\ ~Falsy(ver)
                 THEN <<cur_package, ver,
                        DictAppend(pkgs, cur_package,
                            [version |-> ver,
                             path |-> cur_package \o <<"@">> \o ver])>>
                 ELSE <<cur_package, ver, pkgs>>
        ELSE <<cur_package, cur_version, pkgs>>

LeftPad == <<"l", "e", "f", "t", "-", "p", "a", "d">>

\* 'name@version:', the unindented line that starts the block of a package
Header(name, ver) == name \o <<"@">> \o ver \o <<":">>

\* '  version "X"', the indented field of a block
VersionField(ver) == <<" ", " ">> \o VersionKey \o <<"\"">> \o ver \o <<"\"">>

LinePool ==
    { Header(LeftPad, V100), Header(LeftPad, V200), Header(NameScoped, V100),
      VersionField(V100), VersionField(V200),
      <<>>, <<"#", " ", "c">> }

RECURSIVE JoinLines(_)
JoinLines(ls) ==
    IF ls = <<>> THEN <<>> ELSE ls[1] \o <<"\n">> \o JoinLines(Tail(ls))

\* The texts of at most MaxLines lines, each ended by a line break.
YarnDocuments ==
    UNION { {JoinLines(ls) : ls \in [1 .. n -> LinePool]} : n \in 0 .. MaxLines }

\* content.split('\n')
ContentLines == Split(content, <<"\n">>)

InitYarn ==
    /\ script = "analyze_package_lock"
    /\ lock_data = [type |-> "yarn"]
    /\ content \in YarnDocuments
    /\ lpc = "lines" /\ idx = 0
    /\ current_package = NoneVal /\ current_version = NoneVal
    /\ packages = <<>> /\ duplicates = <<>> /\ dup_count = <<0, 0, 0>>
    /\ VerIdle /\ WsIdle /\ ChkIdle /\ TreeIdle /\ NodeIdle

\* One iteration of `for line in content.split('\n')`
YarnLine ==
    /\ lpc = "lines"
    /\ idx < Len(ContentLines)
    /\ LET after == yarn_line(current_package, current_version, packages,
                              ContentLines[idx + 1])
       IN  /\ current_package' = after[1]
           /\ current_version' = after[2]
           /\ packages' = after[3]
    /\ idx' = idx + 1
    /\ UNCHANGED <<lock_data, content, lpc, script, duplicates, dup_count,
                   verVars, wsVars,
                   chkVars, treeVars, nodeVars>>

\* `return packages` after the last line
YarnReturn ==
    /\ lpc = "lines"
    /\ idx = Len(ContentLines)
    /\ lpc' = "parsed"
    /\ UNCHANGED <<lock_data, content, idx, current_package, current_version,
                   script, packages, duplicates, dup_count, verVars, wsVars,
                   chkVars, treeVars, nodeVars>>

NextYarn ==
    \/ YarnLine
    \/ YarnReturn
    \/ FindDuplicates

SpecYarn == InitYarn /\ [][NextYarn]_vars

(***************************************************************************)
(* monorepo-checker.py: find_circular_dependencies.  The recursion of      *)
(* has_circular_dep is an explicit stack of frames [pkg_name, visited, k], *)
(* k the place in the iteration over the dependencies of pkg_name.         *)
(***************************************************************************)
\* {**a, **b}
RECURSIVE DictMerge(_, _)
DictMerge(a, b) ==
    IF b = <<>> THEN a ELSE DictMerge(DictSet(a, b[1][1], b[1][2]), Tail(b))

\* The merge the other way round: an entry of dependencies replaces one of
\* devDependencies.
AllDeps_DependenciesLast(pkg) == DictMerge(pkg.devDependencies, pkg.dependencies)

\* all_deps = {**pkg['dependencies'], **pkg['devDependencies']}
AllDeps(pkg) == DictMerge(pkg.dependencies, pkg.devDependencies)

\* `name in workspace_names`
InWorkspace(name) == \E i \in 1 .. Len(packages_info) : packages_info[i].name = name

\* workspace_names[name]: the dict comprehension keeps the last member of a name
WorkspacePkg(name) ==
    packages_info[SetMax({i \in 1 .. Len(packages_info) : packages_info[i].name = name})]

\* The recursion limit of the interpreter, out of reach of a traversal that
\* enters each member at most once on a path.
MaxStack == MaxMembers + 2

\* The test of the visited set is missing.
hcd_enter_NoVisitedTest(pkg_name, visited) ==
    IF ~InWorkspace(pkg_name) THEN "false"
    ELSE "loop"

\* has_circular_dep on entry: `return False` or the loop over the dependencies
hcd_enter(pkg_name, visited) ==
    IF pkg_name \in visited THEN "false"
    ELSE IF ~InWorkspace(pkg_name) THEN "false"
    ELSE "loop"

\* has_circular_dep, one dependency: `return True`, a recursive call, or next
hcd_dep(dep_name, target_name) ==
    IF dep_name = target_name THEN "true"
    ELSE IF InWorkspace(dep_name) THEN "recurse"
    ELSE "next"

\* `return has_circular_dep(...)`: the first recursive call decides.
hcd_after_call_ReturnFirst(r) == IF r THEN "true" ELSE "false"

\* has_circular_dep after a recursive call: `if ...: return True`, else next
hcd_after_call(r) == IF r THEN "true" ELSE "next"

(***************************************************************************)
(* SpecWorkspace: one call of find_circular_dependencies.                  *)
(***************************************************************************)
\* The name of the i-th workspace member, and a package of the registry.
MemberName(i) == <<"m">> \o FormatInt(i)

External == <<"x">>

Star == <<"*">>

\* The dependency map of member i of n for the declared edges E, an edge
\* <<i, j>> a dependency of member i on member j, or on the external package
\* for j = 0: names in the order of the members, the external last.
DepsOf(i, n, E) ==
    LET Entry(j) == IF <<i, j>> \in E
                    THEN <<<<IF j = 0 THEN External ELSE MemberName(j), Star>>>>
                    ELSE <<>>
        RECURSIVE Upto(_)
        Upto(j) == IF j = 0 THEN <<>> ELSE Upto(j - 1) \o Entry(j)
    IN  Upto(n) \o Entry(0)

MemberOf(i, n, E, Dev) ==
    [name            |-> MemberName(i),
     dependencies    |-> DepsOf(i, n, E \ Dev),
     devDependencies |-> DepsOf(i, n, Dev)]

\* The e-th of the n * (n + 1) edges that n members can declare.
EdgeOf(e, n) == <<((e - 1) \div (n + 1)) + 1, (e - 1) % (n + 1)>>

\* The edges an increasing sequence of edge numbers chooses.
EdgeSet(c, n) == {EdgeOf(c[i], n) : i \in 1 .. Len(c)}

\* The first edge of E, by member and then by target.
FirstEdge(E) ==
    {e \in E : \A f \in E : e[1] < f[1] \/ (e[1] = f[1] /\ e[2] <= f[2])}

\* A workspace of at most MaxMembers members with at most MaxEdges declared
\* dependencies, all in `dependencies`, or the first of them in
\* `devDependencies`.
InitWs ==
    /\ \E n \in 0 .. MaxMembers, k \in 0 .. MaxEdges :
          \E c \in [1 .. k -> 1 .. n * (n + 1)], dev \in BOOLEAN :
              /\ \A i \in 1 .. (k - 1) : c[i] < c[i + 1]
              /\ packages_info =
                     [i \in 1 .. n |->
                         MemberOf(i, n, EdgeSet(c, n),
                                  IF dev THEN FirstEdge(EdgeSet(c, n)) ELSE {})]
    /\ wpc = "outer" /\ pkg_i = 1 /\ dep_i = 1
    /\ stack = <<>> /\ ret = FALSE /\ circular = <<>>
    /\ VerIdle /\ LockIdle /\ ChkIdle /\ TreeIdle /\ NodeIdle

\* The member and the dependency the outer loops stand at.
OuterPkg == packages_info[pkg_i]

OuterDeps == AllDeps(OuterPkg)

Top == stack[Len(stack)]

Pop == SubSeq(stack, 1, Len(stack) - 1)

\* `for dep_name in all_deps: if dep_name in workspace_names:` and the call
WsOuterDep ==
    /\ wpc = "outer"
    /\ pkg_i <= Len(packages_info)
    /\ dep_i <= Len(OuterDeps)
    /\ IF InWorkspace(OuterDeps[dep_i][1])
       THEN /\ stack' = <<[pkg_name |-> OuterDeps[dep_i][1], visited |-> {}, k |-> 0]>>
            /\ wpc' = "enter"
            /\ dep_i' = dep_i
       ELSE /\ dep_i' = dep_i + 1
            /\ UNCHANGED <<stack, wpc>>
    /\ UNCHANGED <<packages_info, pkg_i, ret, circular, verVars, lockVars,
                   chkVars, treeVars, nodeVars>>

\* `for pkg in packages_info:` the next member
WsNextMember ==
    /\ wpc = "outer"
    /\ pkg_i <= Len(packages_info)
    /\ dep_i > Len(OuterDeps)
    /\ pkg_i' = pkg_i + 1
    /\ dep_i' = 1
    /\ UNCHANGED <<packages_info, wpc, stack, ret, circular, verVars, lockVars,
                   chkVars, treeVars, nodeVars>>

\* `return circular`
WsReturn ==
    /\ wpc = "outer"
    /\ pkg_i > Len(packages_info)
    /\ wpc' = "done"
    /\ UNCHANGED <<packages_info, pkg_i, dep_i, stack, ret, circular,
                   verVars, lockVars,
                   chkVars, treeVars, nodeVars>>

\* has_circular_dep, from its entry to the start of its loop
HcdEnter ==
    /\ wpc = "enter"
    /\ LET how == hcd_enter(Top.pkg_name, Top.visited)
       IN  IF how = "false"
           THEN /\ ret' = FALSE
                /\ stack' = Pop
                /\ wpc' = "return"
           ELSE /\ stack' = [stack EXCEPT ![Len(stack)] =
                                [pkg_name |-> Top.pkg_name,
                                 visited  |-> Top.visited \cup {Top.pkg_name},
                                 k        |-> 1]]
                /\ wpc' = "loop"
                /\ ret' = ret
    /\ UNCHANGED <<packages_info, pkg_i, dep_i, circular, verVars, lockVars,
                   chkVars, treeVars, nodeVars>>

\* has_circular_dep, one step of `for dep_name in all_deps:`
HcdLoop ==
    /\ wpc = "loop"
    /\ LET deps == AllDeps(WorkspacePkg(Top.pkg_name))
       IN  IF Top.k > Len(deps)
           THEN /\ ret' = FALSE /\ stack' = Pop /\ wpc' = "return"
           ELSE LET how == hcd_dep(deps[Top.k][1], OuterPkg.name)
                IN  CASE how = "true" ->
                             /\ ret' = TRUE /\ stack' = Pop /\ wpc' = "return"
                      [] how = "recurse" ->
                             IF Len(stack) >= MaxStack
                             THEN /\ wpc' = "RecursionError"
                                  /\ UNCHANGED <<stack, ret>>
                             ELSE /\ stack' = Append(stack,
                                        [pkg_name |-> deps[Top.k][1],
                                         visited  |-> Top.visited,
                                         k        |-> 0])
                                  /\ wpc' = "enter"
                                  /\ ret' = ret
                      [] how = "next" ->
                             /\ stack' = [stack EXCEPT ![Len(stack)].k = Top.k + 1]
                             /\ UNCHANGED <<wpc, ret>>
    /\ UNCHANGED <<packages_info, pkg_i, dep_i, circular, verVars, lockVars,
                   chkVars, treeVars, nodeVars>>

\* The return of has_circular_dep: to the loop of its caller, or to
\* find_circular_dependencies, which appends the finding.
HcdReturn ==
    /\ wpc = "return"
    /\ IF stack = <<>>
       THEN /\ circular' = IF ret
                           THEN Append(circular, [from |-> OuterPkg.name,
                                                  to   |-> OuterDeps[dep_i][1]])
                           ELSE circular
            /\ dep_i' = dep_i + 1
            /\ wpc' = "outer"
            /\ UNCHANGED <<stack, ret>>
       ELSE LET how == hcd_after_call(ret)
            IN  /\ CASE how = "true" ->
                          /\ ret' = TRUE /\ stack' = Pop /\ wpc' = "return"
                     [] how = "false" ->
                          /\ ret' = FALSE /\ stack' = Pop /\ wpc' = "return"
                     [] how = "next" ->
                          /\ stack' = [stack EXCEPT ![Len(stack)].k = Top.k + 1]
                          /\ wpc' = "loop"
                          /\ ret' = ret
                /\ UNCHANGED <<circular, dep_i>>
    /\ UNCHANGED <<packages_info, pkg_i, verVars, lockVars,
                   chkVars, treeVars, nodeVars>>

NextWs ==
    \/ WsOuterDep
    \/ WsNextMember
    \/ WsReturn
    \/ HcdEnter
    \/ HcdLoop
    \/ HcdReturn

\* The interpreter runs the call to its end: no step waits for anything.
SpecWorkspace == InitWs /\ [][NextWs]_vars /\ WF_vars(NextWs)

(***************************************************************************)
(* monorepo-checker.py: check_version_mismatches and                       *)
(* check_workspace_references.                                             *)
(***************************************************************************)
\* 'workspace:'
WorkspacePrefix == <<"w", "o", "r", "k", "s", "p", "a", "c", "e", ":">>

\* dependency_versions[dep_name][version].append(name), the outer and the
\* inner mapping made on first use (defaultdict)
cvm_record(dv, dep_name, version_, name) ==
    DictSet(dv, dep_name,
            DictAppend(IF DictHas(dv, dep_name) THEN DictGet(dv, dep_name) ELSE <<>>,
                       version_, name))

\* check_version_mismatches: `for dep_name, version in all_deps.items()`
RECURSIVE cvm_member(_, _, _)
cvm_member(dv, all_deps, name) ==
    IF all_deps = <<>> THEN dv
    ELSE cvm_member(cvm_record(dv, all_deps[1][1], all_deps[1][2], name),
                    Tail(all_deps), name)

\* Every recorded name is a mismatch.
RECURSIVE cvm_mismatches_AtLeastOne(_)
cvm_mismatches_AtLeastOne(dv) ==
    IF dv = <<>> THEN <<>>
    ELSE (IF Len(dv[1][2]) >= 1 THEN <<dv[1]>> ELSE <<>>)
             \o cvm_mismatches_AtLeastOne(Tail(dv))

\* check_version_mismatches: the names with `len(versions) > 1`
RECURSIVE cvm_mismatches(_)
cvm_mismatches(dv) ==
    IF dv = <<>> THEN <<>>
    ELSE (IF Len(dv[1][2]) > 1 THEN <<dv[1]>> ELSE <<>>)
             \o cvm_mismatches(Tail(dv))

\* The target of a workspace: range is not looked up among the members.
cwr_entry_NoMemberTest(pkg_name, dep_name, version_) ==
    IF StartsWith(version_, WorkspacePrefix)
    THEN <<[type |-> "missing_workspace", package |-> pkg_name,
            dependency |-> dep_name, current_version |-> NoneVal]>>
    ELSE IF InWorkspace(dep_name)
    THEN IF ~StartsWith(version_, WorkspacePrefix) /\ ~StartsWith(version_, <<"*">>)
         THEN <<[type |-> "non_workspace_protocol", package |-> pkg_name,
                 dependency |-> dep_name, current_version |-> version_]>>
         ELSE <<>>
    ELSE <<>>

\* check_workspace_references: the issues one entry of all_deps appends
\* (a missing_workspace issue has no current_version)
cwr_entry(pkg_name, dep_name, version_) ==
    IF StartsWith(version_, WorkspacePrefix)
    THEN IF ~InWorkspace(dep_name)
         THEN <<[type |-> "missing_workspace", package |-> pkg_name,
                 dependency |-> dep_name, current_version |-> NoneVal]>>
         ELSE <<>>
    ELSE IF InWorkspace(dep_name)
    THEN IF ~StartsWith(version_, WorkspacePrefix) /\ ~StartsWith(version_, <<"*">>)
         THEN <<[type |-> "non_workspace_protocol", package |-> pkg_name,
                 dependency |-> dep_name, current_version |-> version_]>>
         ELSE <<>>
    ELSE <<>>

\* check_workspace_references: `for dep_name, version in all_deps.items()`
RECURSIVE cwr_member(_, _, _)
cwr_member(iss, all_deps, name) ==
    IF all_deps = <<>> THEN iss
    ELSE cwr_member(iss \o cwr_entry(name, all_deps[1][1], all_deps[1][2]),
                    Tail(all_deps), name)

(***************************************************************************)
(* SpecChecks: main of monorepo-checker.py calls check_version_mismatches  *)
(* and then check_workspace_references on the members it has read.         *)
(***************************************************************************)
\* 'workspace:*'
WorkspaceStar == WorkspacePrefix \o Star

\* '*.x'
StarX == <<"*", ".", "x">>

\* The declared ranges: the workspace protocol, the wildcard, a range that
\* begins with the wildcard, and a version.
RangePool == <<WorkspaceStar, Star, StarX, V100>>

\* The place of the e-th of the 2 * n + 1 entries that n members can
\* declare: member i declares the first member and the external package in
\* its dependencies, the first member declares itself in devDependencies too.
EntryOf(e, n) ==
    IF e = 2 * n + 1
    THEN [member |-> 1, dev |-> TRUE, name |-> MemberName(1)]
    ELSE [member |-> (e + 1) \div 2, dev |-> FALSE,
          name |-> IF e % 2 = 1 THEN MemberName(1) ELSE External]

\* The dependencies (or devDependencies) of member i for the chosen entries
\* c with the ranges r.
DeclaredMap(i, dev, c, r, n) ==
    LET RECURSIVE Upto(_)
        Upto(j) ==
            IF j = 0 THEN <<>>
            ELSE Upto(j - 1) \o
                 (IF EntryOf(c[j], n).member = i /\ EntryOf(c[j], n).dev = dev
                  THEN <<<<EntryOf(c[j], n).name, RangePool[r[j]]>>>>
                  ELSE <<>>)
    IN  Upto(Len(c))

\* A workspace of 1 to MaxMembers members that declare at most MaxEdges
\* entries (main leaves with no member read).
InitChecks ==
    /\ \E n \in 1 .. MaxMembers, k \in 0 .. MaxEdges :
          \E c \in [1 .. k -> 1 .. 2 * n + 1], r \in [1 .. k -> 1 .. Len(RangePool)] :
              /\ \A i \in 1 .. (k - 1) : c[i] < c[i + 1]
              /\ packages_info =
                     [i \in 1 .. n |->
                         [name            |-> MemberName(i),
                          dependencies    |-> DeclaredMap(i, FALSE, c, r, n),
                          devDependencies |-> DeclaredMap(i, TRUE, c, r, n)]]
    /\ wpc = "mismatches" /\ pkg_i = 1 /\ dep_i = 0
    /\ stack = <<>> /\ ret = FALSE /\ circular = <<>>
    /\ issues = <<>> /\ dependency_versions = <<>> /\ mismatches = <<>>
    /\ VerIdle /\ LockIdle /\ TreeIdle /\ NodeIdle

\* check_version_mismatches: one iteration of `for pkg in packages_info`
CvmMember ==
    /\ wpc = "mismatches"
    /\ pkg_i <= Len(packages_info)
    /\ dependency_versions' =
           cvm_member(dependency_versions, AllDeps(OuterPkg), OuterPkg.name)
    /\ pkg_i' = pkg_i + 1
    /\ UNCHANGED <<packages_info, wpc, dep_i, stack, ret, circular, issues,
                   mismatches, verVars, lockVars, treeVars, nodeVars>>

\* check_version_mismatches: the filter and `return mismatches`
CvmReturn ==
    /\ wpc = "mismatches"
    /\ pkg_i > Len(packages_info)
    /\ mismatches' = cvm_mismatches(dependency_versions)
    /\ wpc' = "references"
    /\ pkg_i' = 1
    /\ UNCHANGED <<packages_info, dep_i, stack, ret, circular, issues,
                   dependency_versions, verVars, lockVars, treeVars, nodeVars>>

\* check_workspace_references: one iteration of `for pkg in packages_info`
CwrMember ==
    /\ wpc = "references"
    /\ pkg_i <= Len(packages_info)
    /\ issues' = cwr_member(issues, AllDeps(OuterPkg), OuterPkg.name)
    /\ pkg_i' = pkg_i + 1
    /\ UNCHANGED <<packages_info, wpc, dep_i, stack, ret, circular,
                   dependency_versions, mismatches,
                   verVars, lockVars, treeVars, nodeVars>>

\* check_workspace_references: `return issues`
CwrReturn ==
    /\ wpc = "references"
    /\ pkg_i > Len(packages_info)
    /\ wpc' = "checked"
    /\ UNCHANGED <<packages_info, pkg_i, dep_i, stack, ret, circular, chkVars,
                   verVars, lockVars, treeVars, nodeVars>>

NextChecks ==
    \/ CvmMember
    \/ CvmReturn
    \/ CwrMember
    \/ CwrReturn

SpecChecks == InitChecks /\ [][NextChecks]_vars


(***************************************************************************)
(* SpecMonorepo: main of monorepo-checker.py on a workspace of two members *)
(* whose manifests declare dependencies, devDependencies and               *)
(* peerDependencies: check_version_mismatches, check_workspace_references  *)
(* and find_circular_dependencies, one after the other.                    *)
(***************************************************************************)
MaxDeclared == 3   \* entries declared over all sections of all manifests

\* The members of the workspace.
TwoMembers == <<MemberName(1), MemberName(2)>>

\* The names a manifest can declare: the members and the external package.
DeclarableNames == TwoMembers \o <<External>>

Sections == <<"dependencies", "devDependencies", "peerDependencies">>

\* The e-th of the entries that the manifests can declare: by member, then
\* by section, then by name.
ManifestEntry(e) ==
    LET perMember == Len(Sections) * Len(DeclarableNames)
    IN  [member  |-> ((e - 1) \div perMember) + 1,
         section |-> Sections[(((e - 1) % perMember) \div Len(DeclarableNames)) + 1],
         name    |-> DeclarableNames[((e - 1) % Len(DeclarableNames)) + 1]]

\* The range an entry declares: the two members write a version and the
\* workspace protocol in opposite sections.
SectionRange(member, section) ==
    CASE section = "dependencies"     -> IF member = 1 THEN V100 ELSE WorkspaceStar
      [] section = "devDependencies"  -> IF member = 1 THEN WorkspaceStar ELSE V100
      [] section = "peerDependencies" -> V200

\* data.get(section, {}) of member i for the chosen entries c
ManifestSection(i, section, c) ==
    LET RECURSIVE Upto(_)
        Upto(j) ==
            IF j = 0 THEN <<>>
            ELSE Upto(j - 1) \o
                 (IF ManifestEntry(c[j]).member = i
                        /\ ManifestEntry(c[j]).section = section
                  THEN <<<<ManifestEntry(c[j]).name, SectionRange(i, section)>>>>
                  ELSE <<>>)
    IN  Upto(Len(c))

\* read_package_info: the fields of a manifest that the checks read
ReadPackageInfo(i, c) ==
    [name             |-> TwoMembers[i],
     dependencies     |-> ManifestSection(i, "dependencies", c),
     devDependencies  |-> ManifestSection(i, "devDependencies", c),
     peerDependencies |-> ManifestSection(i, "peerDependencies", c)]

InitMonorepo ==
    /\ \E k \in 0 .. MaxDeclared :
          \E c \in [1 .. k -> 1 .. Len(TwoMembers) * Len(Sections) * Len(DeclarableNames)] :
              /\ \A i \in 1 .. (k - 1) : c[i] < c[i + 1]
              /\ packages_info = [i \in 1 .. Len(TwoMembers) |-> ReadPackageInfo(i, c)]
    /\ wpc = "mismatches" /\ pkg_i = 1 /\ dep_i = 0
    /\ stack = <<>> /\ ret = FALSE /\ circular = <<>>
    /\ issues = <<>> /\ dependency_versions = <<>> /\ mismatches = <<>>
    /\ VerIdle /\ LockIdle /\ TreeIdle /\ NodeIdle

\* main: circular = find_circular_dependencies(packages_info)
MainCircular ==
    /\ wpc = "checked"
    /\ wpc' = "outer"
    /\ pkg_i' = 1 /\ dep_i' = 1
    /\ UNCHANGED <<packages_info, stack, ret, circular, chkVars,
                   verVars, lockVars, treeVars, nodeVars>>

NextMonorepo ==
    \/ CvmMember
    \/ CvmReturn
    \/ CwrMember
    \/ CwrReturn
    \/ MainCircular
    \/ WsOuterDep
    \/ WsNextMember
    \/ WsReturn
    \/ HcdEnter
    \/ HcdLoop
    \/ HcdReturn

SpecMonorepo == InitMonorepo /\ [][NextMonorepo]_vars


(***************************************************************************)
(* analyze_package_lock.py: analyze_pnpm_lock.                             *)
(***************************************************************************)
\* The places of '/' in a text.
SlashPositions(s) == {i \in 1 .. Len(s) : s[i] = "/"}

\* The text is cut at its first '/'.
RSplit1_First(s) ==
    IF SlashPositions(s) = {} THEN <<s>>
    ELSE LET k == CHOOSE i \in SlashPositions(s) : \A j \in SlashPositions(s) : i <= j
         IN  <<SubSeq(s, 1, k - 1), From(s, k)>>

\* s.rsplit('/', 1): the text before and the text after the last '/'
RSplit1(s) ==
    IF SlashPositions(s) = {} THEN <<s>>
    ELSE LET k == SetMax(SlashPositions(s))
         IN  <<SubSeq(s, 1, k - 1), From(s, k)>>

\* analyze_pnpm_lock: the body of the loop over the `packages` mapping
pnpm_entry(pkgs, pkg_spec) ==
    IF StartsWith(pkg_spec, <<"/">>)
    THEN LET parts == RSplit1(From(pkg_spec, 1))
         IN  IF Len(parts) = 2
             THEN DictAppend(pkgs, parts[1],
                             [version |-> parts[2], path |-> pkg_spec])
             ELSE pkgs
    ELSE pkgs

(***************************************************************************)
(* SpecPnpm: one run of analyze_package_lock.py on a pnpm-lock.yaml        *)
(* document: analyze_pnpm_lock, then find_duplicates.                      *)
(***************************************************************************)
\* Keys of the `packages` mapping: '/name/version', a scoped name, a key
\* with no leading '/', keys with no second '/', and '//'.
SpecPool ==
    { <<"/">> \o NameA \o <<"/">> \o V100,
      <<"/">> \o NameA \o <<"/">> \o V200,
      <<"/">> \o NameScoped \o <<"/">> \o V100,
      NameA \o <<"/">> \o V100,
      <<"/">> \o NameA,
      <<"/">> \o NameA \o <<"@">> \o V100,
      <<"/", "/">> }

\* The mappings of at most MaxKeys keys.
SpecMaps ==
    UNION { {ps \in [1 .. n -> SpecPool] : \A i, j \in 1 .. n : i # j => ps[i] # ps[j]}
            : n \in 0 .. MaxKeys }

\* What yaml.safe_load returns: None for an empty document, else a mapping,
\* whose `packages` is absent, null or a mapping.
PnpmDocuments ==
    {[is_none |-> TRUE, has_packages |-> FALSE, packages_is_none |-> FALSE,
      packages |-> <<>>],
     [is_none |-> FALSE, has_packages |-> FALSE, packages_is_none |-> FALSE,
      packages |-> <<>>],
     [is_none |-> FALSE, has_packages |-> TRUE, packages_is_none |-> TRUE,
      packages |-> <<>>]}
    \cup
    {[is_none |-> FALSE, has_packages |-> TRUE, packages_is_none |-> FALSE,
      packages |-> ps] : ps \in SpecMaps}

InitPnpm ==
    /\ script = "analyze_package_lock"
    /\ \E installed \in BOOLEAN, doc \in PnpmDocuments :
          lock_data = [type |-> "pnpm", yaml_installed |-> installed,
                       document |-> doc]
    /\ content = <<>>
    /\ lpc = "import" /\ idx = 0
    /\ current_package = NoneVal /\ current_version = NoneVal
    /\ packages = <<>> /\ duplicates = <<>> /\ dup_count = <<0, 0, 0>>
    /\ VerIdle /\ WsIdle /\ ChkIdle /\ TreeIdle /\ NodeIdle

\* `import yaml`, and on ImportError the message and `return {}`
PnpmImport ==
    /\ lpc = "import"
    /\ lpc' = IF lock_data.yaml_installed THEN "load" ELSE "parsed"
    /\ UNCHANGED <<lock_data, content, idx, current_package, current_version,
                   script, packages, duplicates, dup_count,
                   verVars, wsVars, chkVars, treeVars, nodeVars>>

\* yaml.safe_load and `lock_data.get('packages', {}).items()`: None has no
\* `get` and no `items`
PnpmLoad ==
    /\ lpc = "load"
    /\ lpc' = IF lock_data.document.is_none \/ lock_data.document.packages_is_none
              THEN "AttributeError"
              ELSE "entries"
    /\ UNCHANGED <<lock_data, content, idx, current_package, current_version,
                   script, packages, duplicates, dup_count,
                   verVars, wsVars, chkVars, treeVars, nodeVars>>

\* One iteration of `for pkg_spec, info in ... .items()`
PnpmEntry ==
    /\ lpc = "entries"
    /\ idx < Len(lock_data.document.packages)
    /\ packages' = pnpm_entry(packages, lock_data.document.packages[idx + 1])
    /\ idx' = idx + 1
    /\ UNCHANGED <<lock_data, content, lpc, current_package, current_version,
                   script, duplicates, dup_count,
                   verVars, wsVars, chkVars, treeVars, nodeVars>>

\* `return packages`
PnpmReturn ==
    /\ lpc = "entries"
    /\ idx = Len(lock_data.document.packages)
    /\ lpc' = "parsed"
    /\ UNCHANGED <<lock_data, content, idx, current_package, current_version,
                   script, packages, duplicates, dup_count,
                   verVars, wsVars, chkVars, treeVars, nodeVars>>

NextPnpm ==
    \/ PnpmImport
    \/ PnpmLoad
    \/ PnpmEntry
    \/ PnpmReturn
    \/ FindDuplicates

SpecPnpm == InitPnpm /\ [][NextPnpm]_vars


(***************************************************************************)
(* SpecTree: one run of dependency-tree-visualizer.py with its options on  *)
(* a package-lock.json whose `dependencies` nest up to MaxLocs deep.       *)
(***************************************************************************)
MaxLocs == 6   \* packages of a chain of nested dependencies

\* The packages of a chain.
ChainPool == <<<<NameA, V100>>, <<NameA, V200>>, <<NameB, V100>>>>

\* The `dependencies` mapping in which each package of the chain c, from the
\* i-th on, is the one dependency of the package before it.
RECURSIVE ChainDeps(_, _)
ChainDeps(c, i) ==
    IF i > Len(c) THEN <<>>
    ELSE <<<<ChainPool[c[i]][1],
             IF i = Len(c) THEN Leaf(ChainPool[c[i]][2])
             ELSE Node(ChainPool[c[i]][2], ChainDeps(c, i + 1))>>>>

\* --package: none, a name of the chains, or a name that no chain holds
FocusOptions == {NoneVal, NameA, NameScoped}

\* --max-depth: none, or a depth
DepthOptions == {<<>>, <<0>>, <<DisplayCap - 1>>}

InitTree ==
    /\ script = "dependency-tree-visualizer"
    /\ \E k \in 0 .. MaxLocs : \E c \in [1 .. k -> 1 .. Len(ChainPool)] :
          lock_data = [type |-> "npm", has_packages |-> FALSE, packages |-> <<>>,
                       has_dependencies |-> TRUE, dependencies |-> ChainDeps(c, 1)]
    /\ focus_package \in FocusOptions
    /\ duplicates_only \in BOOLEAN
    /\ max_depth \in DepthOptions
    /\ tree = <<>> /\ depth_stats = <<>> /\ output = <<>>
    /\ content = <<>>
    /\ lpc = "packages" /\ idx = 0
    /\ current_package = NoneVal /\ current_version = NoneVal
    /\ packages = <<>> /\ duplicates = <<>> /\ dup_count = <<0, 0, 0>>
    /\ VerIdle /\ WsIdle /\ ChkIdle /\ NodeIdle

NextTree ==
    \/ NpmWalkDeps
    \/ BuildTree
    \/ CountDuplicates
    \/ PrintTree

SpecTree == InitTree /\ [][NextTree]_vars


(***************************************************************************)
(* SpecOrder: one run of dependency-tree-visualizer.py on a package-lock   *)
(* whose versions reach two digits in a component.                         *)
(***************************************************************************)
MaxChain == 3   \* packages of a chain of nested dependencies

V1000 == <<"1", "0", ".", "0", ".", "0">>

\* The packages of a chain.
OrderPool ==
    <<<<NameA, V200>>, <<NameA, V1000>>, <<NameB, V100>>, <<NameScoped, V100>>>>

\* The `dependencies` mapping in which each package of the chain c, from the
\* i-th on, is the one dependency of the package before it.
RECURSIVE OrderDeps(_, _)
OrderDeps(c, i) ==
    IF i > Len(c) THEN <<>>
    ELSE <<<<OrderPool[c[i]][1],
             IF i = Len(c) THEN Leaf(OrderPool[c[i]][2])
             ELSE Node(OrderPool[c[i]][2], OrderDeps(c, i + 1))>>>>

InitOrder ==
    /\ script = "dependency-tree-visualizer"
    /\ \E k \in 0 .. MaxChain : \E c \in [1 .. k -> 1 .. Len(OrderPool)] :
          lock_data = [type |-> "npm", has_packages |-> FALSE, packages |-> <<>>,
                       has_dependencies |-> TRUE, dependencies |-> OrderDeps(c, 1)]
    /\ focus_package \in FocusOptions
    /\ duplicates_only \in BOOLEAN
    /\ max_depth \in DepthOptions
    /\ tree = <<>> /\ depth_stats = <<>> /\ output = <<>>
    /\ content = <<>>
    /\ lpc = "packages" /\ idx = 0
    /\ current_package = NoneVal /\ current_version = NoneVal
    /\ packages = <<>> /\ duplicates = <<>> /\ dup_count = <<0, 0, 0>>
    /\ VerIdle /\ WsIdle /\ ChkIdle /\ NodeIdle

NextOrder ==
    \/ NpmWalkDeps
    \/ BuildTree
    \/ CountDuplicates
    \/ PrintTree

SpecOrder == InitOrder /\ [][NextOrder]_vars


(***************************************************************************)
(* check_node_version.py: parse_version_range and version_satisfies.       *)
(***************************************************************************)
\* re.search(r'(\d+)\.(\d+)\.(\d+)', s) matches at place i: the lengths of
\* the three runs of digits, or <<>> (each \d+ takes its whole run)
ThreeRunsAt(s, i) ==
    LET d1 == DigitRun(From(s, i - 1))
        d2 == DigitRun(From(s, i + d1))
        d3 == DigitRun(From(s, i + d1 + d2 + 1))
    IN  IF /\ d1 > 0
           /\ i + d1 <= Len(s) /\ s[i + d1] = "."
           /\ d2 > 0
           /\ i + d1 + d2 + 1 <= Len(s) /\ s[i + d1 + d2 + 1] = "."
           /\ d3 > 0
        THEN <<d1, d2, d3>>
        ELSE <<>>

\* re.search(r'(\d+)\.x', s) matches at place i: the length of the run, or 0
MajorXAt(s, i) ==
    LET d1 == DigitRun(From(s, i - 1))
    IN  IF /\ d1 > 0
           /\ i + d1 + 1 <= Len(s)
           /\ s[i + d1] = "." /\ s[i + d1 + 1] = "x"
        THEN d1 ELSE 0

\* The least of a set of places, or 0 for no place: re.search finds the
\* leftmost match
Leftmost(places) ==
    IF places = {} THEN 0
    ELSE CHOOSE i \in places : \A j \in places : i <= j

\* parse_version_range(range_str): a requirement, or NoMatch for None
parse_version_range(range_str) ==
    LET s   == Strip(range_str)
        at  == Leftmost({i \in 1 .. Len(s) : ThreeRunsAt(s, i) # <<>>})
        atX == Leftmost({i \in 1 .. Len(s) : MajorXAt(s, i) > 0})
    IN  IF at # 0
        THEN LET d  == ThreeRunsAt(s, at)
                 op == Strip(SubSeq(s, 1, at - 1))
             IN  [major    |-> ParseInt(SubSeq(s, at, at + d[1] - 1)),
                  minor    |-> ParseInt(SubSeq(s, at + d[1] + 1, at + d[1] + d[2])),
                  patch    |-> ParseInt(SubSeq(s, at + d[1] + d[2] + 2,
                                               at + d[1] + d[2] + d[3] + 1)),
                  operator |-> IF op = <<>> THEN <<"=">> ELSE op]
        ELSE IF atX # 0
        THEN [major    |-> ParseInt(SubSeq(s, atX, atX + MajorXAt(s, atX) - 1)),
              minor    |-> 0,
              patch    |-> 0,
              operator |-> <<"^">>]
        ELSE NoMatch

\* version_satisfies(current, requirement)
version_satisfies(current, requirement) ==
    LET parts      == Split(current, <<".">>)
        curr_parts == [i \in 1 .. Len(parts) |-> ParseInt(parts[i])]
    IN  IF requirement.operator \in {<<">", "=">>, <<>>}
        THEN \/ curr_parts[1] > requirement.major
             \/ /\ curr_parts[1] = requirement.major
                /\ curr_parts[2] >= requirement.minor
        ELSE IF requirement.operator = <<"^">>
        THEN /\ curr_parts[1] = requirement.major
             /\ curr_parts[2] >= requirement.minor
        ELSE IF requirement.operator = <<"~">>
        THEN /\ curr_parts[1] = requirement.major
             /\ curr_parts[2] = requirement.minor
             /\ curr_parts[3] >= requirement.patch
        ELSE IF requirement.operator \in {<<"=">>, <<"=", "=">>}
        THEN current = FormatVersion(<<requirement.major, requirement.minor,
                                       requirement.patch>>)
        ELSE TRUE

(***************************************************************************)
(* SpecNode: the check of engines.node in main of check_node_version.py.   *)
(***************************************************************************)
\* The versions that requirements name.
RequiredPool == {<<1, 1, 1>>, <<1, 0, 0>>, <<0, 1, 2>>, <<10, 0, 0>>}

RangeOperators ==
    { <<>>, <<">", "=">>, <<"^">>, <<"~">>, <<"=">>, <<"=", "=">>,
      <<"<">>, <<"<", "=">>, <<">">>, <<">", "=", " ">> }

\* Requirements with no three-part version, with a padded or a second
\* clause, and the empty one.
OddRanges ==
    { <<>>, <<"1", ".", "x">>, <<"1", "0", ".", "x">>, <<">", "=", "1", ".", "x">>,
      <<"*">>, <<"l", "a", "t", "e", "s", "t">>, <<"1", ".", "2">>,
      <<" ", "^", "1", ".", "1", ".", "1", " ">>,
      <<">", "=", "1", ".", "0", ".", "0", " ", "<", "2", ".", "0", ".", "0">>,
      <<"0", "1", ".", "1", ".", "1">> }

NodeRequirements ==
    {op \o FormatVersion(t) : op \in RangeOperators, t \in RequiredPool}
        \cup OddRanges

InitNode ==
    /\ current_node \in {FormatVersion(v) : v \in Versions}
    /\ node_requirement \in NodeRequirements
    /\ parsed = NoMatch /\ compatible = FALSE
    /\ npc = "requirement"
    /\ VerIdle /\ LockIdle /\ WsIdle /\ ChkIdle /\ TreeIdle

\* `if node_requirement:` parsed = parse_version_range(node_requirement),
\* and the message when it is None
NodeParse ==
    /\ npc = "requirement"
    /\ IF Falsy(node_requirement)
       THEN /\ npc' = "no_requirement"
            /\ UNCHANGED parsed
       ELSE /\ parsed' = parse_version_range(node_requirement)
            /\ npc' = IF parsed' = NoMatch THEN "unparsable" ELSE "parsed"
    /\ UNCHANGED <<current_node, node_requirement, compatible,
                   verVars, lockVars, wsVars, chkVars, treeVars>>

\* compatible = version_satisfies(current_node, parsed), and the report
NodeSatisfies ==
    /\ npc = "parsed"
    /\ compatible' = version_satisfies(current_node, parsed)
    /\ npc' = "checked"
    /\ UNCHANGED <<current_node, node_requirement, parsed,
                   verVars, lockVars, wsVars, chkVars, treeVars>>

NextNode ==
    \/ NodeParse
    \/ NodeSatisfies

SpecNode == InitNode /\ [][NextNode]_vars


(***************************************************************************)
(* Properties of check_version_constraint (SpecVersion).                   *)
(***************************************************************************)
\* The version a text of the form major.minor.patch writes down.
VersionTable == {<<FormatVersion(v), v>> : v \in Versions}

IsVersionText(s) == \E p \in VersionTable : p[1] = s

VersionOf(s) == (CHOOSE p \in VersionTable : p[1] = s)[2]

\* The order of versions: lexicographic on (major, minor, patch).
LexLT(v, t) ==
    \/ v[1] < t[1]
    \/ v[1] = t[1] /\ v[2] < t[2]
    \/ v[1] = t[1] /\ v[2] = t[2] /\ v[3] < t[3]

LexLE(v, t) == v = t \/ LexLT(v, t)

\* The call returned for the version text of v and the constraint op + t.
Returned(op) ==
    /\ vpc = "returned"
    /\ version # NoneVal /\ constraint # NoneVal
    /\ IsVersionText(version)
    /\ StartsWith(constraint, op)
    /\ IsVersionText(From(constraint, Len(op)))

ArgV == VersionOf(version)

ArgT(op) == VersionOf(From(constraint, Len(op)))

\* C5 (caret law): for all three-part versions v and t,
\* check_version_constraint(v, '^' + t) is true iff v.major = t.major and
\* (v.minor, v.patch) >= (t.minor, t.patch) lexicographically; it is false
\* whenever the majors differ.
C5_CaretLaw ==
    Returned(<<"^">>) =>
        LET v == ArgV
            t == ArgT(<<"^">>)
        IN  /\ result = (/\ v[1] = t[1]
                         /\ (v[2] > t[2] \/ (v[2] = t[2] /\ v[3] >= t[3])))
            /\ (v[1] # t[1] => result = FALSE)

\* 1.2.0 satisfies ^1.1.2: a newer minor with an older patch.
C5_Witness ==
    /\ vpc = "returned"
    /\ version = FormatVersion(<<1, 2, 0>>)
    /\ constraint = <<"^">> \o FormatVersion(<<1, 1, 2>>)
    /\ result = TRUE

\* C6 (tilde law): for all three-part versions v and t,
\* check_version_constraint(v, '~' + t) is true iff v.major = t.major and
\* v.minor = t.minor and v.patch >= t.patch.
C6_TildeLaw ==
    Returned(<<"~">>) =>
        LET v == ArgV
            t == ArgT(<<"~">>)
        IN  result = (v[1] = t[1] /\ v[2] = t[2] /\ v[3] >= t[3])

\* 1.2.0 does not satisfy ~1.1.0, and 1.1.2 satisfies ~1.1.1.
C6_Witness ==
    /\ vpc = "returned"
    /\ \/ /\ version = FormatVersion(<<1, 2, 0>>)
          /\ constraint = <<"~">> \o FormatVersion(<<1, 1, 0>>)
          /\ result = FALSE
       \/ /\ version = FormatVersion(<<1, 1, 2>>)
          /\ constraint = <<"~">> \o FormatVersion(<<1, 1, 1>>)
          /\ result = TRUE

\* C7 (comparison constraints): for all three-part versions v and t,
\* check_version_constraint(v, op + t) equals (v op t) in the lexicographic
\* order of (major, minor, patch), for op in >=, >, <=, <; '>=' and '<=' are
\* inclusive at v = t; and v1 < v2 implies that v2 satisfies '>=' v1 and that
\* v1 satisfies '<' v2.
C7_ComparisonLaw ==
    /\ Returned(<<">", "=">>) =>
           /\ result = LexLE(ArgT(<<">", "=">>), ArgV)
           /\ (LexLT(ArgT(<<">", "=">>), ArgV) => result = TRUE)
    /\ Returned(<<">">>) => result = LexLT(ArgT(<<">">>), ArgV)
    /\ Returned(<<"<", "=">>) => result = LexLE(ArgV, ArgT(<<"<", "=">>))
    /\ Returned(<<"<">>) =>
           /\ result = LexLT(ArgV, ArgT(<<"<">>))
           /\ (LexLT(ArgV, ArgT(<<"<">>)) => result = TRUE)

\* 2.0.0 satisfies '>=2.0.0': the boundary of the inclusive comparison.
C7_Witness ==
    /\ vpc = "returned"
    /\ version = FormatVersion(<<2, 0, 0>>)
    /\ constraint = <<">", "=">> \o FormatVersion(<<2, 0, 0>>)
    /\ result = TRUE

\* A three-part version digits.digits.digits stands at position i of s.
ThreePartAt(s, i) ==
    \E j \in i .. Len(s) - 4 :
        /\ \A n \in i .. j : s[n] \in Digits
        /\ s[j + 1] = "."
        /\ \E k \in (j + 2) .. Len(s) - 2 :
              /\ \A n \in (j + 2) .. k : s[n] \in Digits
              /\ s[k + 1] = "."
              /\ s[k + 2] \in Digits

\* The text does not parse as a three-part version.
Unparsable(s) == s = NoneVal \/ ~ThreePartAt(s, 1)

\* The wildcard or the empty constraint: a constraint without a target.
IsAny(c) == c # NoneVal /\ Strip(c) \in {<<"*">>, <<>>}

\* The text that follows the (longest) operator at the start of a constraint.
TargetOf(c) ==
    LET s   == Strip(c)
        ops == {op \in Operators : StartsWith(s, op)}
        op  == CHOOSE o \in ops : \A o2 \in ops : Len(o2) <= Len(o)
    IN  Strip(From(s, Len(op)))

\* C8 (conservative fallback): if the version text or the target of the
\* constraint does not parse as a three-part version, the call returns False.
C8_Fallback ==
    (/\ vpc = "returned"
     /\ \/ Unparsable(version)
        \/ constraint = NoneVal
        \/ ~IsAny(constraint) /\ Unparsable(TargetOf(constraint)))
        => result = FALSE

\* 'not-a-version' against 1.2.3 has returned False.
C8_Witness ==
    /\ vpc = "returned"
    /\ version = <<"1", ".", "2", ".", "3">>
    /\ constraint = <<"n", "o", "t", "-", "a", "-", "v", "e", "r", "s", "i", "o", "n">>
    /\ result = FALSE

(***************************************************************************)
(* Properties of the package-lock.json parsers and of the duplicate        *)
(* detection (SpecNpm).                                                    *)
(***************************************************************************)
\* The places of a path where the separator 'node_modules/' stands.
SepPositions(path) ==
    {i \in 1 .. Len(path) :
        i + Len(NM) - 1 <= Len(path) /\ SubSeq(path, i, i + Len(NM) - 1) = NM}

\* The text after the last separator of a path.
NameOfKey(path) == From(path, SetMax(SepPositions(path)) + Len(NM) - 1)

\* The occurrences of a package map: <<n, i>> is the i-th of the n-th name.
Occurrences(pkgs) ==
    UNION { {<<n, i>> : i \in 1 .. Len(pkgs[n][2])} : n \in 1 .. Len(pkgs) }

Occ(pkgs, o) == pkgs[o[1]][2][o[2]]

\* The place of a key in the `packages` mapping of the document.
KeyIndex(path) ==
    CHOOSE k \in 1 .. Len(lock_data.packages) : lock_data.packages[k][1] = path

\* C2 (nested-resolution `packages` format): after the first idx entries,
\* every non-root key with a separator has exactly one occurrence, filed
\* under the text after its last separator, with the entry's version, the key
\* as path and (load_npm_lock) the number of separators as depth; the root
\* key and keys without a separator have none; occurrences are in key order.
C2_PackagesFormat ==
    (lpc = "packages" /\ lock_data.type = "npm") =>
        /\ \A k \in 1 .. idx :
              LET key  == lock_data.packages[k][1]
                  info == lock_data.packages[k][2]
                  occs == {o \in Occurrences(packages) : Occ(packages, o).path = key}
              IN  IF key # <<>> /\ SepPositions(key) # {}
                  THEN /\ Cardinality(occs) = 1
                       /\ \A o \in occs :
                             /\ packages[o[1]][1] = NameOfKey(key)
                             /\ info.version # NoneVal
                                    => Occ(packages, o).version = info.version
                             /\ script = "dependency-tree-visualizer"
                                    => Occ(packages, o).depth
                                           = Cardinality(SepPositions(key))
                  ELSE occs = {}
        /\ \A o \in Occurrences(packages) :
              \E k \in 1 .. idx : lock_data.packages[k][1] = Occ(packages, o).path
        /\ \A o1, o2 \in Occurrences(packages) :
              (o1[1] = o2[1] /\ o1[2] < o2[2])
                  => KeyIndex(Occ(packages, o1).path) < KeyIndex(Occ(packages, o2).path)
        /\ \A n1, n2 \in 1 .. Len(packages) :
              n1 # n2 => packages[n1][1] # packages[n2][1]

\* load_npm_lock has read 'node_modules/b/node_modules/a' and a key that is
\* no installation: one occurrence of a, found two separators deep.
C2_Witness ==
    /\ lpc = "packages" /\ idx = 2
    /\ script = "dependency-tree-visualizer"
    /\ \E k \in 1 .. 2 : lock_data.packages[k][1] = <<"l", "i", "b", "/", "a">>
    /\ Len(packages) = 1
    /\ packages[1][1] = NameA
    /\ Len(packages[1][2]) = 1
    /\ packages[1][2][1].depth = 2

\* C3 (depth is the distance from the root): load_npm_lock records the
\* `packages` entry 'node_modules/a' at depth 0 and the nested entry
\* 'node_modules/a/node_modules/a' at depth 1, as the `dependencies` format
\* does for a top-level dependency ('a') and one nested inside it.
C3_DepthFromRoot ==
    (script = "dependency-tree-visualizer" /\ lock_data.type = "npm") =>
        \A o \in Occurrences(packages) :
            LET occ == Occ(packages, o)
            IN  /\ occ.path = NM \o NameA => occ.depth = 0
                /\ occ.path = NM \o NameA \o <<"/">> \o NM \o NameA => occ.depth = 1
                /\ occ.path = NameA => occ.depth = 0
                /\ occ.path = NameA \o <<"/">> \o NM \o NameA => occ.depth = 1

\* The names of a package map that carry two different versions.
MultiVersionNames(pkgs) ==
    {n \in 1 .. Len(pkgs) :
        \E i, j \in 1 .. Len(pkgs[n][2]) :
            pkgs[n][2][i].version # pkgs[n][2][j].version}

\* The paths of the occurrences that carry version v, in occurrence order.
RECURSIVE PathsOf(_, _)
PathsOf(occs, v) ==
    IF occs = <<>> THEN <<>>
    ELSE (IF occs[1].version = v THEN <<occs[1].path>> ELSE <<>>)
             \o PathsOf(Tail(occs), v)

RECURSIVE SumLen(_)
SumLen(d) == IF d = <<>> THEN 0 ELSE Len(d[1][2]) + SumLen(Tail(d))

\* C4 (duplicate detection): find_duplicates has an entry for a name iff its
\* occurrences carry more than one distinct version; the entry maps each
\* distinct version to that version's paths in occurrence order, so its lists
\* hold every occurrence of the name once.  count_duplicates and the marker of
\* print_tree use the same criterion.
C4_Duplicates ==
    /\ (lpc = "done" /\ script = "analyze_package_lock") =>
          /\ {duplicates[d][1] : d \in 1 .. Len(duplicates)}
                 = {packages[n][1] : n \in MultiVersionNames(packages)}
          /\ Len(duplicates) = Cardinality(MultiVersionNames(packages))
          /\ \A d \in 1 .. Len(duplicates) :
                LET occs  == DictGet(packages, duplicates[d][1])
                    entry == duplicates[d][2]
                IN  /\ {entry[e][1] : e \in 1 .. Len(entry)}
                           = {occs[i].version : i \in 1 .. Len(occs)}
                    /\ \A e \in 1 .. Len(entry) :
                           entry[e][2] = PathsOf(occs, entry[e][1])
                    /\ \A e1, e2 \in 1 .. Len(entry) :
                           e1 # e2 => entry[e1][1] # entry[e2][1]
                    /\ SumLen(entry) = Len(occs)
    /\ (lpc = "done" /\ script = "dependency-tree-visualizer") =>
          /\ dup_count[1] = Cardinality(MultiVersionNames(packages))
          /\ \A n \in 1 .. Len(packages) :
                is_duplicate(packages[n][2]) <=> n \in MultiVersionNames(packages)

\* find_duplicates has run on a map in which one name has several occurrences
\* of a single version (no entry) and another name has two versions (an entry).
C4_Witness ==
    /\ lpc = "done" /\ script = "analyze_package_lock"
    /\ duplicates # <<>>
    /\ \E n \in 1 .. Len(packages) :
          /\ Len(packages[n][2]) > 1
          /\ ~DictHas(duplicates, packages[n][1])

(***************************************************************************)
(* Properties of the yarn.lock parser (SpecYarn).                          *)
(***************************************************************************)
\* An unindented line that names a package: not blank, no comment, with '@'.
IsHeader(l) == l # <<>> /\ l[1] \notin {" ", "#"} /\ Contains(l, <<"@">>)

\* The package name of a header: the text before the '@' that starts the
\* version, the scope marker kept.
HeaderName(l) ==
    IF l[1] = "@"
    THEN <<"@">> \o SubSeq(l, 2, FindFrom(l, <<"@">>, 2) - 1)
    ELSE SubSeq(l, 1, FindFrom(l, <<"@">>, 1) - 1)

\* An indented line `version "X"`.
IsVersionField(l) ==
    /\ l # <<>> /\ l[1] = " "
    /\ StartsWith(Strip(l), VersionKey \o <<"\"">>)
    /\ l[Len(l)] = "\""

\* The X of an indented line `version "X"`.
FieldValue(l) ==
    LET t == Strip(l) IN SubSeq(t, Len(VersionKey) + 2, Len(t) - 1)

\* C1 (flow-style parsing): once the text is read, every header line that is
\* followed by an indented version field has an occurrence under the header's
\* package name with the version of the field; and the document with the
\* headers left-pad@1.0.0 and left-pad@2.0.0, each followed by its version
\* field, has a duplicate finding for left-pad.
C1_YarnOccurrences ==
    /\ (lock_data.type = "yarn" /\ lpc \in {"parsed", "done"}) =>
          \A i \in 1 .. (Len(ContentLines) - 1) :
              (IsHeader(ContentLines[i]) /\ IsVersionField(ContentLines[i + 1]))
                  => \E o \in Occurrences(packages) :
                        /\ packages[o[1]][1] = HeaderName(ContentLines[i])
                        /\ Occ(packages, o).version = FieldValue(ContentLines[i + 1])
    /\ (/\ lock_data.type = "yarn" /\ lpc = "done"
        /\ content = JoinLines(<<Header(LeftPad, V100), VersionField(V100),
                                 Header(LeftPad, V200), VersionField(V200)>>))
          => DictHas(duplicates, LeftPad)

(***************************************************************************)
(* Properties of find_circular_dependencies (SpecWorkspace).               *)
(***************************************************************************)
\* The names a member declares in its combined dependencies.
Declared(m) ==
    LET pkg == packages_info[m]
    IN  {pkg.dependencies[i][1] : i \in 1 .. Len(pkg.dependencies)}
            \cup {pkg.devDependencies[i][1] : i \in 1 .. Len(pkg.devDependencies)}

MemberNames == {packages_info[m].name : m \in 1 .. Len(packages_info)}

\* The members that a member-to-member dependency edge leads to from a name.
Successors(name) ==
    UNION {Declared(m) \cap MemberNames :
              m \in {i \in 1 .. Len(packages_info) : packages_info[i].name = name}}

\* The members reachable from the set R along one or more edges.
RECURSIVE Closure(_)
Closure(R) ==
    LET more == R \cup UNION {Successors(r) : r \in R}
    IN  IF more = R THEN R ELSE Closure(more)

Reachable(from) == Closure(Successors(from))

\* The findings as pairs <<from, to>>.
Findings == {<<circular[i].from, circular[i].to>> : i \in 1 .. Len(circular)}

\* C9 (termination): find_circular_dependencies returns on every workspace,
\* also with members that depend on themselves and with cycles, and then a
\* member that declares itself is reported with from = to.
C9_Terminates ==
    <>(/\ wpc = "done"
       /\ \A m \in 1 .. Len(packages_info) :
             packages_info[m].name \in Declared(m)
                 => <<packages_info[m].name, packages_info[m].name>> \in Findings)

\* The call has returned on a workspace with a member that declares itself
\* and with a cycle through another member.
C9_Witness ==
    /\ wpc = "done"
    /\ \E m \in 1 .. Len(packages_info) :
          /\ packages_info[m].name \in Declared(m)
          /\ <<packages_info[m].name, packages_info[m].name>> \in Findings
          /\ \E d \in Declared(m) \cap MemberNames :
                d # packages_info[m].name /\ packages_info[m].name \in Reachable(d)

\* C10 (edge-level report): with distinct member names, the pair (m, d) is
\* reported, and once, iff m declares d, d is a workspace member and m is
\* reachable from d along member-to-member dependency edges.
C10_EdgeReport ==
    wpc = "done" =>
        /\ Findings =
              {<<packages_info[m].name, d>> :
                  <<m, d>> \in
                      {md \in (1 .. Len(packages_info)) \X MemberNames :
                          /\ md[2] \in Declared(md[1])
                          /\ packages_info[md[1]].name \in Reachable(md[2])}}
        /\ \A i, j \in 1 .. Len(circular) : i # j => circular[i] # circular[j]

\* A three-member cycle has been reported edge by edge.
C10_Witness ==
    /\ wpc = "done"
    /\ Findings = {<<MemberName(1), MemberName(2)>>, <<MemberName(2), MemberName(3)>>,
                   <<MemberName(3), MemberName(1)>>}

\* An edge into a two-member cycle has not been reported, the cycle has.
C10_WitnessLeadIn ==
    /\ wpc = "done"
    /\ Len(packages_info) = 3
    /\ MemberName(2) \in Declared(1)
    /\ Findings = {<<MemberName(2), MemberName(3)>>, <<MemberName(3), MemberName(2)>>}

(***************************************************************************)
(* Properties of check_workspace_references and check_version_mismatches   *)
(* (SpecChecks).                                                           *)
(***************************************************************************)
\* The range a mapping holds for the name d.
RangeIn(section, d) ==
    section[CHOOSE i \in 1 .. Len(section) : section[i][1] = d][2]

\* The range that the combined dependency map of member m holds for a name
\* it declares: an entry of devDependencies replaces one of dependencies.
CombinedRange(m, d) ==
    LET pkg == packages_info[m]
    IN  IF \E i \in 1 .. Len(pkg.devDependencies) : pkg.devDependencies[i][1] = d
        THEN RangeIn(pkg.devDependencies, d)
        ELSE RangeIn(pkg.dependencies, d)

\* The findings about the entry of member m for the name d.
IssuesOf(m, d) ==
    {i \in 1 .. Len(issues) :
        issues[i].package = packages_info[m].name /\ issues[i].dependency = d}

IssueKinds(m, d) == {issues[i].type : i \in IssuesOf(m, d)}

Marked(r) == Len(r) >= Len(WorkspacePrefix)
                 /\ SubSeq(r, 1, Len(WorkspacePrefix)) = WorkspacePrefix

\* The classification of every entry, for a reading Wild of `the wildcard`.
Classification(Wild(_)) ==
    wpc = "checked" =>
        /\ \A i \in 1 .. Len(issues) :
              \E m \in 1 .. Len(packages_info) :
                  /\ issues[i].package = packages_info[m].name
                  /\ issues[i].dependency \in Declared(m)
        /\ \A m \in 1 .. Len(packages_info) : \A d \in Declared(m) :
              LET r == CombinedRange(m, d)
              IN  /\ Cardinality(IssuesOf(m, d)) <= 1
                  /\ "missing_workspace" \in IssueKinds(m, d)
                         <=> (Marked(r) /\ d \notin MemberNames)
                  /\ "non_workspace_protocol" \in IssueKinds(m, d)
                         <=> (d \in MemberNames /\ ~Marked(r) /\ ~Wild(r))
                  /\ IssueKinds(m, d)
                         \subseteq {"missing_workspace", "non_workspace_protocol"}

IsStar(r) == r = Star

BeginsWithStar(r) == r # <<>> /\ r[1] = "*"

\* C11 as stated: every entry of every member's combined dependency map has
\* at most one finding, missing_workspace iff its range starts with
\* 'workspace:' and its name is no member, non_workspace_protocol iff its
\* name is a member and its range neither starts with 'workspace:' nor is
\* the wildcard '*'.
C11_Classification == Classification(IsStar)

\* C11 (amended): the same classification, where a range is exempt from
\* non_workspace_protocol when it starts with 'workspace:' or starts with
\* '*'; so a member that depends on another member with the range '1.0.0'
\* has a non_workspace_protocol finding.
C11_ClassificationPrefix == Classification(BeginsWithStar)

\* Member m2 depends on member m1 with '1.0.0' and is reported, and a member
\* that declares m1 with a range beginning with '*' has no finding for it.
C11_Witness ==
    /\ wpc = "checked"
    /\ Len(packages_info) >= 2
    /\ MemberName(1) \in Declared(2)
    /\ CombinedRange(2, MemberName(1)) = V100
    /\ \E i \in 1 .. Len(issues) :
          issues[i] = [type |-> "non_workspace_protocol",
                       package |-> MemberName(2), dependency |-> MemberName(1),
                       current_version |-> V100]
    /\ \E m \in 1 .. Len(packages_info) :
          /\ MemberName(1) \in Declared(m)
          /\ CombinedRange(m, MemberName(1)) = StarX
          /\ IssuesOf(m, MemberName(1)) = {}

\* The members whose combined map holds the range r for the name d.
UsersOf(d, r) ==
    {m \in 1 .. Len(packages_info) : d \in Declared(m) /\ CombinedRange(m, d) = r}

\* Their names, in the order of the members.
RECURSIVE UserNames(_, _, _)
UserNames(d, r, m) ==
    IF m = 0 THEN <<>>
    ELSE UserNames(d, r, m - 1)
             \o (IF m \in UsersOf(d, r) THEN <<packages_info[m].name>> ELSE <<>>)

RangesOfName(d) ==
    {CombinedRange(m, d) : m \in {k \in 1 .. Len(packages_info) : d \in Declared(k)}}

AllDeclared == UNION {Declared(m) : m \in 1 .. Len(packages_info)}

SetMin(S) == CHOOSE x \in S : \A y \in S : x <= y

C12_WitnessCombined ==
    /\ wpc = "checked"
    /\ \E i \in 1 .. Len(packages_info[1].dependencies) :
          /\ packages_info[1].dependencies[i][1] = MemberName(1)
          /\ packages_info[1].dependencies[i][2] # CombinedRange(1, MemberName(1))
    /\ \E i \in 1 .. Len(mismatches) : mismatches[i][1] = MemberName(1)


(***************************************************************************)
(* Properties of graph building (SpecNpm).                                 *)
(***************************************************************************)
\* The records of the first k keys of the `packages` mapping, in key order:
\* one for each key that holds a separator.
RECURSIVE PackagesRecords(_)
PackagesRecords(k) ==
    IF k = 0 THEN <<>>
    ELSE LET key  == lock_data.packages[k][1]
             info == lock_data.packages[k][2]
         IN  PackagesRecords(k - 1) \o
             (IF SepPositions(key) # {}
              THEN <<[name    |-> NameOfKey(key),
                      version |-> IF info.version = NoneVal THEN Unknown
                                  ELSE info.version,
                      path    |-> key]>>
              ELSE <<>>)

\* The records of a `dependencies` mapping in document order, from the path
\* prefix of the script.
RECURSIVE DepsRecords(_, _)
DepsRecords(deps, prefix) ==
    IF deps = <<>> THEN <<>>
    ELSE LET name == deps[1][1]
             info == deps[1][2]
         IN  <<[name    |-> name,
                version |-> IF info.version = NoneVal THEN Unknown ELSE info.version,
                path    |-> prefix \o name]>>
             \o (IF info.has_dependencies
                 THEN DepsRecords(info.dependencies, prefix \o name \o <<"/">> \o NM)
                 ELSE <<>>)
             \o DepsRecords(Tail(deps), prefix)

\* The records parsed so far.
ParsedRecords ==
    IF lpc = "packages"
    THEN PackagesRecords(idx)
    ELSE (IF lock_data.has_packages
          THEN PackagesRecords(Len(lock_data.packages)) ELSE <<>>)
         \o (IF lock_data.has_dependencies
             THEN DepsRecords(lock_data.dependencies,
                              IF script = "analyze_package_lock" THEN NM ELSE <<>>)
             ELSE <<>>)

\* The records of a name, in the order of the sequence.
RECURSIVE RecordsNamed(_, _)
RecordsNamed(recs, name) ==
    IF recs = <<>> THEN <<>>
    ELSE (IF recs[1].name = name
          THEN <<[version |-> recs[1].version, path |-> recs[1].path]>>
          ELSE <<>>)
         \o RecordsNamed(Tail(recs), name)

\* C13: the list the package map holds for a name is the subsequence of the
\* parsed records of that name, in parse order, nothing merged and nothing
\* dropped; so the map has as many occurrences as there are parsed records,
\* and the number of occurrences of each name is a function of the record
\* sequence alone.
C13_KeepsEveryRecord ==
    lock_data.type = "npm" =>
        /\ \A n \in 1 .. Len(packages) :
              [i \in 1 .. Len(packages[n][2]) |->
                  [version |-> packages[n][2][i].version,
                   path    |-> packages[n][2][i].path]]
                  = RecordsNamed(ParsedRecords, packages[n][1])
        /\ {packages[n][1] : n \in 1 .. Len(packages)}
               = {ParsedRecords[i].name : i \in 1 .. Len(ParsedRecords)}
        /\ \A n1, n2 \in 1 .. Len(packages) :
              n1 # n2 => packages[n1][1] # packages[n2][1]
        /\ SumLen(packages) = Len(ParsedRecords)

\* A document with both formats has been parsed, and a name holds three
\* occurrences of which two have the same version.
C13_Witness ==
    /\ lock_data.type = "npm" /\ lpc = "parsed"
    /\ lock_data.has_packages /\ lock_data.has_dependencies
    /\ \E n \in 1 .. Len(packages) :
          /\ Len(packages[n][2]) >= 3
          /\ \E i, j \in 1 .. Len(packages[n][2]) :
                i # j /\ packages[n][2][i].version = packages[n][2][j].version
    /\ Len(packages) >= 2


\* A nested-resolution document with neither a `packages` nor a
\* `dependencies` key (the entries of the documents of SpecNpm are objects).
MalformedDocument ==
    /\ lock_data.type = "npm"
    /\ ~lock_data.has_packages
    /\ ~lock_data.has_dependencies

\* C15: the parse of a malformed nested-resolution document fails as a
\* whole: analyze_npm_lock returns no package map from it, and find_duplicates
\* never runs on one.
C15_MalformedFails ==
    MalformedDocument => lpc \notin {"parsed", "done"}

(***************************************************************************)
(* Properties of analyze_pnpm_lock (SpecPnpm) and of the three parsers on  *)
(* empty documents.                                                        *)
(***************************************************************************)
\* A syntactically valid but empty document: an empty object or one with
\* empty `packages` and `dependencies` mappings (npm), an empty text (yarn),
\* an empty YAML document or one with an empty `packages` mapping (pnpm).
EmptyDocument ==
    \/ /\ lock_data.type = "npm"
       /\ lock_data.packages = <<>>
       /\ lock_data.dependencies = <<>>
    \/ /\ lock_data.type = "yarn"
       /\ content = <<>>
    \/ /\ lock_data.type = "pnpm"
       /\ \/ lock_data.document.is_none
          \/ /\ lock_data.document.has_packages
             /\ ~lock_data.document.packages_is_none
             /\ lock_data.document.packages = <<>>

\* C14: on an empty document each parser returns, without an error, an empty
\* package map.
C14_EmptyDocuments ==
    EmptyDocument =>
        /\ lpc # "AttributeError"
        /\ lpc \in {"parsed", "done"} => packages = <<>>


\* The place of the last '/' of a key.
LastSlash(key) == SetMax({i \in 1 .. Len(key) : key[i] = "/"})

\* A key of the form '/name/version': a leading '/' and a second '/'.
HasNameAndVersion(key) ==
    /\ key # <<>> /\ key[1] = "/"
    /\ \E i \in 2 .. Len(key) : key[i] = "/"

\* C18: once analyze_pnpm_lock has read a key of the form '/name/version',
\* the map holds exactly one occurrence with that key as path, under the
\* name between the leading and the last '/', with the text after the last
\* '/' as version; a key with no leading '/' or no second '/' has none.
C18_PnpmKeys ==
    (lock_data.type = "pnpm" /\ lock_data.yaml_installed
        /\ lpc \in {"entries", "parsed", "done"}) =>
        /\ \A k \in 1 .. idx :
              LET key  == lock_data.document.packages[k]
                  occs == {o \in Occurrences(packages) : Occ(packages, o).path = key}
              IN  IF HasNameAndVersion(key)
                  THEN /\ Cardinality(occs) = 1
                       /\ \A o \in occs :
                             /\ packages[o[1]][1] = SubSeq(key, 2, LastSlash(key) - 1)
                             /\ Occ(packages, o).version
                                    = SubSeq(key, LastSlash(key) + 1, Len(key))
                  ELSE occs = {}
        /\ \A o \in Occurrences(packages) :
              \E k \in 1 .. idx : lock_data.document.packages[k] = Occ(packages, o).path

\* '/@s/b/1.0.0' has been read next to a key with no leading '/': one
\* occurrence, of '@s/b' at 1.0.0.
C18_Witness ==
    /\ lock_data.type = "pnpm" /\ lpc = "parsed" /\ idx = 2
    /\ \E k \in 1 .. 2 : lock_data.document.packages[k] = NameA \o <<"/">> \o V100
    /\ packages = <<<<NameScoped,
                      <<[version |-> V100,
                         path    |-> <<"/">> \o NameScoped \o <<"/">> \o V100]>>>>>>


(***************************************************************************)
(* Properties of the tree rendering (SpecTree).                            *)
(***************************************************************************)
\* The occurrences of a package of the tree with the version v that pass the
\* depth ceiling, in discovery order: the locations to show.
RECURSIVE LocationsToShow(_, _)
LocationsToShow(occs, v) ==
    IF occs = <<>> THEN <<>>
    ELSE (IF occs[1].version = v /\ (max_depth = <<>> \/ occs[1].depth <= max_depth[1])
          THEN <<occs[1]>> ELSE <<>>)
         \o LocationsToShow(Tail(occs), v)

\* The package line that a line of the output stands under.
PackageLineOf(i) ==
    SetMax({j \in 1 .. i : output[j].kind = "package"})

\* The number of location lines that follow line i directly.
RECURSIVE LocationRun(_)
LocationRun(i) ==
    IF i + 1 <= Len(output) /\ output[i + 1].kind = "location"
    THEN 1 + LocationRun(i + 1) ELSE 0

\* The path as the location line shows it.
ShownPath(p) ==
    IF Len(p) >= Len(NM) /\ SubSeq(p, 1, Len(NM)) = NM
    THEN SubSeq(p, Len(NM) + 1, Len(p)) ELSE p

\* The depths of all occurrences of the graph.
GraphDepths == {Occ(packages, o).depth : o \in Occurrences(packages)}

\* C16: under a version line the first min(n, 5) of the n locations to show
\* are printed in discovery order, followed by '... and N more' iff n > 5,
\* with N = n - 5, and the version line counts n instances; every version
\* with a location to show has its line; the statistics count the names,
\* the occurrences, the names with several versions and the largest depth
\* of the whole graph, whatever is shown.
C16_Truncation ==
    (lpc = "done" /\ script = "dependency-tree-visualizer") =>
        /\ \A i \in 1 .. Len(output) :
              output[i].kind = "version" =>
                  LET name == output[PackageLineOf(i)].name
                      locs == LocationsToShow(DictGet(tree, name), output[i].version)
                      n    == Len(locs)
                      run  == LocationRun(i)
                  IN  /\ n > 0
                      /\ output[i].instances = n
                      /\ run = (IF n < 5 THEN n ELSE 5)
                      /\ \A j \in 1 .. run :
                            /\ output[i + j].path = ShownPath(locs[j].path)
                            /\ output[i + j].depth = locs[j].depth
                      /\ (i + run + 1 <= Len(output)
                              /\ output[i + run + 1].kind = "more") <=> n > 5
                      /\ n > 5 => output[i + run + 1].more = n - 5
        /\ \A i \in 1 .. Len(output) :
              output[i].kind \in {"location", "more"}
                  => output[i - 1].kind \in {"version", "location"}
        /\ \A t \in 1 .. Len(tree) :
              (duplicates_only => t \in MultiVersionNames(tree)) =>
                  \A v \in VersionSet(tree[t][2]) :
                      LocationsToShow(tree[t][2], v) # <<>> =>
                          Cardinality({i \in 1 .. Len(output) :
                              /\ output[i].kind = "version"
                              /\ output[i].version = v
                              /\ output[PackageLineOf(i)].name = tree[t][1]}) = 1
        /\ dup_count = <<Cardinality(MultiVersionNames(packages)),
                         Cardinality(Occurrences(packages)),
                         Len(packages)>>
        /\ depth_stats # <<>>
        /\ depth_stats[1].max \in GraphDepths
        /\ \A d \in GraphDepths : d <= depth_stats[1].max

\* A version with six locations has been printed with five location lines
\* and '... and 1 more', and the statistics count the six occurrences.
C16_Witness ==
    /\ lpc = "done" /\ script = "dependency-tree-visualizer"
    /\ \E i \in 1 .. Len(output) :
          /\ output[i].kind = "version"
          /\ output[i].instances = 6
          /\ LocationRun(i) = 5
          /\ output[i + 6] = [kind |-> "more", more |-> 1]
    /\ dup_count = <<0, 6, 1>>
    /\ depth_stats[1].max = 5

\* A depth ceiling leaves exactly five of six locations to show: five lines
\* and no '... and N more'.
C16_WitnessCeiling ==
    /\ lpc = "done" /\ max_depth # <<>>
    /\ \E i \in 1 .. Len(output) :
          /\ output[i].kind = "version"
          /\ output[i].instances = 5
          /\ Len(DictGet(tree, output[PackageLineOf(i)].name)) = 6
          /\ LocationRun(i) = 5
          /\ output[i + 6].kind # "more"

\* The names of the package lines printed.
PrintedNames ==
    {output[i].name : i \in {j \in 1 .. Len(output) : output[j].kind = "package"}}

\* --package was given.
FocusGiven == focus_package # NoneVal /\ focus_package # <<>>

\* C17: with a focus package the rendered tree holds at most that package,
\* no other name is printed, and a focus name that the graph does not hold
\* gives an empty tree, reported as 'not found'.
C17_FocusFilter ==
    (script = "dependency-tree-visualizer" /\ FocusGiven
        /\ lpc \notin {"packages", "parsed"}) =>
        /\ \A t \in 1 .. Len(tree) : tree[t][1] = focus_package
        /\ PrintedNames \subseteq {focus_package}
        /\ ~(\E n \in 1 .. Len(packages) : packages[n][1] = focus_package)
               => (tree = <<>> /\ lpc = "not_found")


(***************************************************************************)
(* Properties of walk_deps (SpecNpm).                                      *)
(***************************************************************************)
\* The positions of the entries of a `dependencies` mapping: <<i>> is its
\* i-th entry, <<i>> \o q the entry at q of the dependencies nested in it.
RECURSIVE Positions(_)
Positions(deps) ==
    UNION { {<<i>>} \cup
            (IF deps[i][2].has_dependencies
             THEN {<<i>> \o q : q \in Positions(deps[i][2].dependencies)}
             ELSE {})
            : i \in 1 .. Len(deps) }

\* The entry <<name, info>> at a position.
RECURSIVE EntryAt(_, _)
EntryAt(deps, p) ==
    IF Len(p) = 1 THEN deps[p[1]]
    ELSE EntryAt(deps[p[1]][2].dependencies, Tail(p))

Parent(p) == SubSeq(p, 1, Len(p) - 1)

\* The path of the entry at a position: the name at the top level (after
\* the prefix that the script starts from), and below it the path of the
\* parent, '/node_modules/' and the name.
RECURSIVE PathAt(_, _, _)
PathAt(deps, p, top) ==
    IF Len(p) = 1 THEN top \o EntryAt(deps, p)[1]
    ELSE PathAt(deps, Parent(p), top) \o <<"/">> \o NM \o EntryAt(deps, p)[1]

\* Depth-first pre-order: an entry comes before the entries nested in it,
\* and it and all of them come before its next sibling.
Before(p, q) ==
    \/ Len(p) < Len(q) /\ SubSeq(q, 1, Len(p)) = p
    \/ \E k \in 1 .. Len(p) :
          /\ k <= Len(q)
          /\ SubSeq(p, 1, k - 1) = SubSeq(q, 1, k - 1)
          /\ p[k] < q[k]

\* The occurrences of the n-th name that the `dependencies` walk recorded:
\* those after the records of the `packages` mapping.
WalkOccurrences(n) ==
    LET fromPackages ==
            IF lock_data.has_packages
            THEN Len(RecordsNamed(PackagesRecords(Len(lock_data.packages)),
                                  packages[n][1]))
            ELSE 0
    IN  SubSeq(packages[n][2], fromPackages + 1, Len(packages[n][2]))

\* C19: walk_deps records the entries of the `dependencies` tree in
\* depth-first pre-order: the occurrences of a name are the entries of that
\* name in pre-order, each with the path parent path + '/node_modules/' +
\* name and (load_npm_lock) the number of enclosing mappings less one as
\* depth, 0 at the top level; names are first recorded in pre-order.
C19_PreOrder ==
    (lock_data.type = "npm" /\ lpc # "packages" /\ lock_data.has_dependencies) =>
        LET deps == lock_data.dependencies
            top  == IF script = "analyze_package_lock" THEN NM ELSE <<>>
            Named(name) == {p \in Positions(deps) : EntryAt(deps, p)[1] = name}
            First(name) == CHOOSE p \in Named(name) :
                               \A q \in Named(name) : q = p \/ Before(p, q)
        IN  /\ \A n \in 1 .. Len(packages) :
                  LET occs == WalkOccurrences(n)
                      here == Named(packages[n][1])
                  IN  /\ Len(occs) = Cardinality(here)
                      /\ \A p \in here :
                            LET i == Cardinality({q \in here : Before(q, p)}) + 1
                            IN  /\ occs[i].path = PathAt(deps, p, top)
                                /\ script = "dependency-tree-visualizer"
                                       => occs[i].depth = Len(p) - 1
                                /\ EntryAt(deps, p)[2].version # NoneVal
                                       => occs[i].version = EntryAt(deps, p)[2].version
            /\ \A p \in Positions(deps) :
                  \E n \in 1 .. Len(packages) : packages[n][1] = EntryAt(deps, p)[1]
            /\ ~lock_data.has_packages =>
                  \A n1, n2 \in 1 .. Len(packages) :
                      n1 < n2 => Before(First(packages[n1][1]), First(packages[n2][1]))

\* load_npm_lock has walked a tree in which b is nested in a and is also the
\* sibling after a: the nested b is recorded first, at depth 1.
C19_Witness ==
    /\ lock_data.type = "npm" /\ lpc = "parsed"
    /\ script = "dependency-tree-visualizer"
    /\ ~lock_data.has_packages /\ lock_data.has_dependencies
    /\ Len(lock_data.dependencies) = 2
    /\ packages = <<<<NameA, <<[version |-> V100, path |-> NameA, depth |-> 0]>>>>,
                    <<NameB, <<[version |-> V100,
                                path    |-> NameA \o <<"/">> \o NM \o NameB,
                                depth   |-> 1],
                               [version |-> V200, path |-> NameB, depth |-> 0]>>>>>>


(***************************************************************************)
(* Properties of version_satisfies (SpecNode).                             *)
(***************************************************************************)
\* The operators that version_satisfies evaluates.
EvaluatedOperators == {<<">", "=">>, <<"^">>, <<"~">>, <<"=">>, <<"=", "=">>}

\* What an evaluated operator asks of the version cur for the required
\* version req.
OperatorHolds(op, cur, req) ==
    CASE op = <<">", "=">> -> LexLE(req, cur)
      [] op = <<"^">>      -> cur[1] = req[1] /\ LexLE(req, cur)
      [] op = <<"~">>      -> cur[1] = req[1] /\ cur[2] = req[2] /\ cur[3] >= req[3]
      [] OTHER             -> cur = req

\* C20: a requirement is reported compatible only if its operator is one
\* that version_satisfies evaluates and the operator's condition holds for
\* the current version; a requirement with another operator ('<', '<=',
\* '>') is not reported as satisfied.
C20_NeverSilentlyCompatible ==
    (npc = "checked" /\ compatible) =>
        /\ parsed.operator \in EvaluatedOperators
        /\ OperatorHolds(parsed.operator, VersionOf(current_node),
                         <<parsed.major, parsed.minor, parsed.patch>>)

(***************************************************************************)
(* Compound ranges (SpecVersion).                                          *)
(***************************************************************************)
\* The constraint is a compound range: two clauses separated by a space, each
\* an operator (or none) followed by a three-part version.
IsCompound(c) == c # NoneVal /\ c \in CompoundInputs

\* The first clause of a compound range: the text before the space.
FirstClause(c) == SubSeq(c, 1, FindFrom(c, <<" ">>, 1) - 1)

\* The second clause of a compound range: the text after the space.
SecondClause(c) == From(c, FindFrom(c, <<" ">>, 1))

\* C21 (compound ranges use only their first clause): for all three-part
\* versions v, a, b and operators op1, op2, check_version_constraint(v, op1 +
\* a + ' ' + op2 + b) equals check_version_constraint(v, op1 + a); the second
\* clause never changes the result.
C21_FirstClauseOnly ==
    (vpc = "returned" /\ IsCompound(constraint) /\ IsVersionText(version)) =>
        result = check_version_constraint(version, FirstClause(constraint))

\* 10.0.0 against '>=1.1.1 <2.0.0' has returned True, as against '>=1.1.1',
\* although 10.0.0 does not satisfy the second clause '<2.0.0'.
C21_Witness ==
    /\ vpc = "returned"
    /\ version = FormatVersion(<<10, 0, 0>>)
    /\ constraint = <<">", "=">> \o FormatVersion(<<1, 1, 1>>) \o <<" ", "<">>
                        \o FormatVersion(<<2, 0, 0>>)
    /\ check_version_constraint(version, SecondClause(constraint)) = FALSE
    /\ result = TRUE

(***************************************************************************)
(* Version parsing (SpecVersion).                                          *)
(***************************************************************************)
\* What may stand before and after the three-part version of a text.
LeadingTexts == {<<>>, <<">", "=">>, <<"=">>, <<"v">>}

TrailingTexts == {<<>>, <<"-", "b">>}

\* The text is a three-part version within a leading and a trailing text.
Embeds(s, v) ==
    \E l \in LeadingTexts, t \in TrailingTexts : s = l \o FormatVersion(v) \o t

\* parse_semver was called on the version text.
ParsedVersion == vpc = "returned" /\ ~Falsy(version) /\ ~Falsy(constraint)

\* C22 (version parsing takes the first digits.digits.digits run found
\* anywhere in the text): a version text with a leading range operator or
\* other prefix ('>=1.2.3', '=1.2.3', 'v1.2.3') and one with a trailing suffix
\* ('1.2.3-b') are parsed by parse_semver to (1, 2, 3).
C22_FirstRunAnywhere ==
    (ParsedVersion /\ Embeds(version, <<1, 2, 3>>)) =>
        parsed_version = [major |-> 1, minor |-> 2, patch |-> 3]

(***************************************************************************)
(* Properties of the rendering order (SpecOrder).                          *)
(***************************************************************************)
\* The lines of a kind, by their place in the output.
LinesOf(kind) == {i \in 1 .. Len(output) : output[i].kind = kind}

\* The version line that a location line stands under.
VersionLineOf(i) ==
    SetMax({j \in 1 .. i : output[j].kind = "version"})

\* The (major, minor, patch) that a version text writes down.
VersionNumbers(text) ==
    LET n1 == DigitRun(text)
        n2 == DigitRun(From(text, n1 + 1))
    IN  <<ParseInt(SubSeq(text, 1, n1)),
          ParseInt(SubSeq(text, n1 + 2, n1 + 1 + n2)),
          ParseInt(From(text, n1 + n2 + 2))>>

\* The place of the occurrence with a shown path among the occurrences of a
\* package of the tree.
PlaceOf(name, shown) ==
    LET occs == DictGet(tree, name)
    IN  CHOOSE k \in 1 .. Len(occs) : ShownPath(occs[k].path) = shown

\* C23 (rendering order): print_tree lists the package names in ascending
\* lexicographic order and, within a name, the versions in ascending version
\* order, compared by (major, minor, patch) as integers (2.0.0 before
\* 10.0.0); within a version the locations keep discovery order.
C23_RenderingOrder ==
    (lpc = "done" /\ script = "dependency-tree-visualizer") =>
        /\ \A i, j \in LinesOf("package") :
              i < j => StrLT(output[i].name, output[j].name)
        /\ \A i, j \in LinesOf("version") :
              (i < j /\ PackageLineOf(i) = PackageLineOf(j)) =>
                  LexLT(VersionNumbers(output[i].version),
                        VersionNumbers(output[j].version))
        /\ \A i, j \in LinesOf("location") :
              (i < j /\ VersionLineOf(i) = VersionLineOf(j)) =>
                  LET name == output[PackageLineOf(i)].name
                  IN  PlaceOf(name, output[i].path) < PlaceOf(name, output[j].path)

(***************************************************************************)
(* Properties of the depth ceiling (SpecTree).                             *)
(***************************************************************************)
\* The occurrences of a package of the tree with the version v whose depth is
\* at most d, by their place.
WithinDepth(name, v, d) ==
    LET occs == DictGet(tree, name)
    IN  {k \in 1 .. Len(occs) : occs[k].version = v /\ occs[k].depth <= d}

\* The version lines printed under the package line i.
VersionLinesUnder(i) ==
    {j \in LinesOf("version") : PackageLineOf(j) = i}

\* C24 (depth ceiling): with --max-depth d, print_tree renders no location
\* whose depth is greater than d, the version line counts only the locations
\* of depth <= d, and a version none of whose locations has depth <= d has no
\* version line; the duplicate marker of a package and the --duplicates-only
\* filter are decided from all occurrences of the package, whatever their
\* depth.
C24_DepthCeiling ==
    (lpc = "done" /\ script = "dependency-tree-visualizer" /\ max_depth # <<>>) =>
        LET d == max_depth[1]
        IN  /\ \A i \in LinesOf("location") : output[i].depth <= d
            /\ \A i \in LinesOf("version") :
                  LET n == Cardinality(WithinDepth(output[PackageLineOf(i)].name,
                                                   output[i].version, d))
                  IN  n > 0 /\ output[i].instances = n
            /\ \A i \in LinesOf("package") :
                  LET occs == DictGet(tree, output[i].name)
                  IN  /\ output[i].marker = (Cardinality(VersionSet(occs)) > 1)
                      /\ duplicates_only => Cardinality(VersionSet(occs)) > 1
                      /\ \A v \in VersionSet(occs) :
                            WithinDepth(output[i].name, v, d) # {} =>
                                \E j \in VersionLinesUnder(i) : output[j].version = v
            /\ \A t \in 1 .. Len(tree) :
                  (duplicates_only => Cardinality(VersionSet(tree[t][2])) > 1) =>
                      \E i \in LinesOf("package") : output[i].name = tree[t][1]

\* With --max-depth 0 and --duplicates-only, a package with a second version
\* one level down is printed with the duplicate marker and with the version
\* line of its top-level version only.
C24_Witness ==
    /\ lpc = "done" /\ script = "dependency-tree-visualizer"
    /\ max_depth = <<0>> /\ duplicates_only
    /\ \E i \in LinesOf("package") :
          /\ output[i].marker
          /\ Cardinality(VersionSet(DictGet(tree, output[i].name))) = 2
          /\ Cardinality(VersionLinesUnder(i)) = 1

(***************************************************************************)
(* Properties of the failure report of analyze_pnpm_lock (SpecPnpm).       *)
(***************************************************************************)
\* main of analyze_package_lock.py has printed 'No duplicate dependencies
\* found!': find_duplicates returned an empty mapping.
ReportsNoDuplicates ==
    /\ script = "analyze_package_lock"
    /\ lpc = "done"
    /\ duplicates = <<>>

\* The document could not be parsed: YAML support is unavailable.
YamlUnavailable == lock_data.type = "pnpm" /\ ~lock_data.yaml_installed

\* C25: a document that could not be parsed is reported as a failure and
\* never as a clean result: when analyze_pnpm_lock cannot parse the document
\* because YAML support is unavailable, the run does not report 'No duplicate
\* dependencies found'.
C25_UnparsedIsNotClean ==
    YamlUnavailable => ~ReportsNoDuplicates

(***************************************************************************)
(* Properties of the wildcard and the empty constraint (SpecVersion).      *)
(***************************************************************************)
\* C26 (Any is always satisfied): for every version that parses as
\* three-part, check_version_constraint returns True for the wildcard
\* constraint '*' and for the empty constraint string.
C26_AnyAlwaysSatisfied ==
    (/\ vpc = "returned"
     /\ ~Unparsable(version)
     /\ constraint \in {<<"*">>, <<>>}) => result = TRUE

(***************************************************************************)
(* The two constraint evaluators (SpecNode).                               *)
(***************************************************************************)
\* The operators that both evaluators know.
SharedOperators == {<<">", "=">>, <<"^">>, <<"~">>, <<>>}

\* The requirement is an operator both evaluators know, followed by a
\* three-part version.
SharedRequirement ==
    \E op \in SharedOperators, t \in RequiredPool :
        node_requirement = op \o FormatVersion(t)

\* C27 (the two constraint evaluators agree): for every three-part version v
\* and every constraint c made of an operator in {'>=', '^', '~', none}
\* followed by a three-part version, version_satisfies(v,
\* parse_version_range(c)) returns the same boolean as
\* check_version_constraint(v, c).
C27_EvaluatorsAgree ==
    (npc = "checked" /\ SharedRequirement) =>
        compatible = check_version_constraint(current_node, node_requirement)

(***************************************************************************)
(* Properties of the package map of analyze_npm_lock (SpecNpm).            *)
(***************************************************************************)
\* C28 (each installed location is recorded once): in the package map
\* returned by analyze_npm_lock no name holds two occurrences with the same
\* path, for every document, including one that carries both a `packages`
\* and a `dependencies` section describing the same installations.
C28_LocationOnce ==
    (/\ lock_data.type = "npm"
     /\ script = "analyze_package_lock"
     /\ lpc \in {"parsed", "done"}) =>
        \A n \in 1 .. Len(packages) :
            \A i, j \in 1 .. Len(packages[n][2]) :
                i # j => packages[n][2][i].path # packages[n][2][j].path

(***************************************************************************)
(* Consistency of the comparison constraints (SpecVersion).                *)
(***************************************************************************)
\* What check_version_constraint gives the version for the constraint
\* op + t: the result of the call when that is its constraint.
Outcome(op, t) ==
    IF constraint = op \o t THEN result
    ELSE check_version_constraint(version, op \o t)

\* Exactly one of three booleans.
ExactlyOne(a, b, c) ==
    \/ a /\ ~b /\ ~c
    \/ ~a /\ b /\ ~c
    \/ ~a /\ ~b /\ c

\* C29 (the comparison constraints are mutually consistent): for all
\* three-part versions v and t, exactly one of check_version_constraint(v,
\* '<' + t), check_version_constraint(v, t) and check_version_constraint(v,
\* '>' + t) is true; '>=' is true exactly when '<' is false, and '<=' is true
\* exactly when '>' is false.
C29_Consistent ==
    /\ \A op \in {<<"<">>, <<>>, <<">">>} :
          Returned(op) =>
              LET t == From(constraint, Len(op))
              IN  ExactlyOne(Outcome(<<"<">>, t), Outcome(<<>>, t),
                             Outcome(<<">">>, t))
    /\ Returned(<<">", "=">>) =>
          result = ~Outcome(<<"<">>, From(constraint, 2))
    /\ Returned(<<"<", "=">>) =>
          result = ~Outcome(<<">">>, From(constraint, 2))

\* 1.1.1 against '>1.1.1' has returned False, and 1.1.1 satisfies the exact
\* constraint '1.1.1': the one of the three that holds at v = t.
C29_Witness ==
    /\ vpc = "returned"
    /\ version = FormatVersion(<<1, 1, 1>>)
    /\ constraint = <<">">> \o FormatVersion(<<1, 1, 1>>)
    /\ result = FALSE
    /\ Outcome(<<>>, FormatVersion(<<1, 1, 1>>))

(***************************************************************************)
(* One range per member and name (SpecMonorepo).                           *)
(***************************************************************************)
\* The names of a section of a manifest.
NamesIn(section) == {section[i][1] : i \in 1 .. Len(section)}

\* The names that member m declares in dependencies and in devDependencies.
DeclaredTwice(m) ==
    NamesIn(packages_info[m].dependencies)
        \cap NamesIn(packages_info[m].devDependencies)

\* The names that member m declares in peerDependencies only.
PeerOnly(m) == NamesIn(packages_info[m].peerDependencies) \ Declared(m)

\* The members that the grouping of check_version_mismatches lists for the
\* name d under the range r.
GroupedUnder(d, r) ==
    IF DictHas(dependency_versions, d) /\ DictHas(DictGet(dependency_versions, d), r)
    THEN LET users == DictGet(DictGet(dependency_versions, d), r)
         IN  {users[i] : i \in 1 .. Len(users)}
    ELSE {}

\* The ranges under which the grouping lists the member m for the name d.
GroupedRanges(m, d) ==
    IF DictHas(dependency_versions, d)
    THEN LET versions == DictGet(dependency_versions, d)
         IN  {r \in {versions[i][1] : i \in 1 .. Len(versions)} :
                 packages_info[m].name \in GroupedUnder(d, r)}
    ELSE {}

\* The findings that a range alone gives the entry of a name.
KindsFor(d, r) ==
    IF Marked(r)
    THEN (IF d \in MemberNames THEN {} ELSE {"missing_workspace"})
    ELSE IF d \in MemberNames /\ ~BeginsWithStar(r)
         THEN {"non_workspace_protocol"}
         ELSE {}

\* C30 (one range per member and name): when a member declares the same
\* name in dependencies and in devDependencies, check_version_mismatches,
\* check_workspace_references and find_circular_dependencies see only the
\* devDependencies range for that name: the dependencies range appears in no
\* grouping and causes no finding; peerDependencies entries are not examined
\* by any of the three.
C30_OneRangePerName ==
    /\ wpc \notin {"idle", "mismatches"} =>
          \A m \in 1 .. Len(packages_info) :
              /\ \A d \in DeclaredTwice(m) :
                    GroupedRanges(m, d) = {RangeIn(packages_info[m].devDependencies, d)}
              /\ \A d \in PeerOnly(m) : GroupedRanges(m, d) = {}
    /\ wpc \notin {"idle", "mismatches", "references"} =>
          \A m \in 1 .. Len(packages_info) :
              /\ \A d \in DeclaredTwice(m) :
                    /\ IssueKinds(m, d)
                           = KindsFor(d, RangeIn(packages_info[m].devDependencies, d))
                    /\ Cardinality(IssuesOf(m, d)) <= 1
                    /\ \A i \in IssuesOf(m, d) :
                          issues[i].type = "non_workspace_protocol" =>
                              issues[i].current_version
                                  = RangeIn(packages_info[m].devDependencies, d)
              /\ \A d \in PeerOnly(m) : IssuesOf(m, d) = {}
    /\ wpc = "done" =>
          /\ \A i, j \in 1 .. Len(circular) : circular[i] = circular[j] => i = j
          /\ \A i \in 1 .. Len(circular) :
                \E m \in 1 .. Len(packages_info) :
                    /\ packages_info[m].name = circular[i].from
                    /\ circular[i].to \in Declared(m)
                    /\ circular[i].from \in Reachable(circular[i].to)

\* The first member declares the second in dependencies with a version and
\* in devDependencies with the workspace protocol, and the second names the
\* first in peerDependencies: main ends with no finding of the three checks.
C30_Witness ==
    /\ wpc = "done"
    /\ packages_info[1].dependencies = <<<<MemberName(2), V100>>>>
    /\ packages_info[1].devDependencies = <<<<MemberName(2), WorkspaceStar>>>>
    /\ packages_info[2].peerDependencies = <<<<MemberName(1), V200>>>>
    /\ mismatches = <<>> /\ issues = <<>> /\ circular = <<>>
    /\ GroupedUnder(MemberName(2), WorkspaceStar) = {MemberName(1)}

====
